---- MODULE Spec2Model ----
(***************************************************************************)
(* A model of sparrow's schedule-building engine: the TimeSpan algebra     *)
(* (src/src/spans.rs) and the Pomodoro and Ivy-Lee packers                 *)
(* (src/src/methods/).                                                      *)
(*                                                                         *)
(* Time is an integer count of minutes since local midnight of day 0; a    *)
(* DateTime<Local> is such a count, a NaiveTime is a count of minutes      *)
(* since midnight and a date is a day number.                              *)
(***************************************************************************)
EXTENDS Integers, Sequences, FiniteSets, TLC

(***************************************************************************)
(* Bounds of the model.                                                    *)
(***************************************************************************)
\* Span starts of the span-algebra harness range over 0..MaxStart.
MaxStart == 3
\* Span lengths (and the minutes argument) range over 0..MaxMinutes(+1).
MaxMinutes == 3
\* make is given at most MaxTasks tasks and at most MaxEvents events.
MaxTasks == 2
MaxEvents == 1
\* work_periods_per_job_session ranges over 1..MaxPeriodsPerSession.
MaxPeriodsPerSession == 2
\* The daemon runs until the wall clock reaches MaxWall ticks.
MaxWall == 10
\* The watcher receives at most MaxFileEvents events.
MaxFileEvents == 2

(***************************************************************************)
(* Program constants.                                                      *)
(***************************************************************************)
\* `minutes: u32`: a u32 is kept as two 16-bit limbs where a cast can wrap,
\* since 2^32 is beyond the model checker's integers.
Limb == 65536
\* chrono::Duration::days(1), in minutes.
MinutesPerDay == 1440
\* A minute in ticks of the daemon's sleep of 30 seconds.
TicksPerMinute == 2

None == [none |-> TRUE]
Some(v) == [some |-> v]
IsSome(o) == o # None

Min(x, y) == IF x <= y THEN x ELSE y

VARIABLES
  \* ---- span-algebra harness ----
  first,        \* a TimeSpan (self / first)
  second,       \* a TimeSpan (other / second)
  minutes_arg,  \* the u32 argument of advance_and_shorten
  op,           \* the function applied last ("none" before any)
  ret,          \* what it returned (or, for a &mut self method, self afterwards)
  \* ---- inputs of Schedule::make ----
  method,       \* which implementation of Schedule::make runs
  config,       \* &Config
  tasks,        \* &[Task], in the caller's order
  events,       \* &[CalendarEvent]
  bedtime,      \* &Bedtime
  clock,        \* what Local::today() / Local::now() return at each read
  \* ---- PomodoroSchedule::make and fill_free_time ----
  pc,           \* position in make
  entries,      \* self.entries
  periods_left, \* Vec<UnscheduledPeriod>
  open_sessions,\* Vec<WorkSession>
  si,           \* index of the session the 'sessions loop is at
  ui,           \* index of the unit the inner loop is at
  unscheduled,  \* the warning lines written (Pomodoro: name and minutes)
  result,       \* what make returned: "none" yet | "Ok" | "Err" | "panic"
  backbone,     \* history: self.entries as fill_free_time found them
  generated,    \* history: the entries fill_free_time appended
  \* ---- IvyLeeSchedule::make ----
  day,          \* the day the walk is at
  sorted_tasks, \* the queue of tasks not finished yet
  task_days,    \* HashMap<NaiveDate, Vec<String>>
  \* ---- the daemon (src/src/bin/sparrowd.rs) ----
  schedule,     \* the PomodoroSchedule inside schedule_mutex: its entries
  lock_holder,  \* the thread that holds schedule_mutex: "none" | "main" | "watcher"
  poisoned,     \* the mutex's poison flag
  main_pc,      \* position of the polling loop of main
  watcher_pc,   \* position of the "data file watcher" thread
  pending,      \* what the watcher's Write/Rename event will load
  file_events,  \* how many file events the watcher has received
  wall,         \* the wall clock, in ticks of one poll interval (30 seconds)
  loop_now,     \* `let now` of the loop of main
  current_event,
  next_event,
  notified_of_current_event,
  warned_of_next_event,
  note,         \* history: the notification the last pass of the loop issued
  reads_since_sleep, \* history: reads of the snapshot since the last sleep
  last_written, \* history: the value last written into the mutex
  last_read,    \* history: what the last read of main found
  issued        \* history: the notifications issued since the last assignment

spanVars == <<first, second, minutes_arg, op, ret>>
inputVars == <<method, config, tasks, events, bedtime, clock>>
pomodoroVars == <<entries, periods_left, open_sessions, si, ui, backbone, generated>>
ivyVars == <<day, sorted_tasks, task_days>>
makeVars == <<pc, unscheduled, result, pomodoroVars, ivyVars>>
daemonVars ==
  <<schedule, lock_holder, poisoned, main_pc, watcher_pc, pending, file_events,
    wall, loop_now, current_event, next_event, notified_of_current_event,
    warned_of_next_event, note, reads_since_sleep, last_written, last_read,
    issued>>
vars == <<spanVars, inputVars, makeVars, daemonVars>>

(***************************************************************************)
(* TimeSpan (src/src/spans.rs)                                             *)
(***************************************************************************)
TimeSpan(start, minutes) == [start |-> start, minutes |-> minutes]

\* TimeSpan::end
End(s) == s.start + s.minutes

\* `x as u32` for an i64 x: the low 32 bits, as two 16-bit limbs.
AsU32(x) == [hi |-> (x \div Limb) % Limb, lo |-> x % Limb]

\* TimeSpan::overlaps
overlaps(self, other) ==
  LET self_end == End(self)
      other_end == End(other)
      total_duration == self.minutes + other.minutes
  IN IF other_end > self.start
       THEN other_end - self.start < total_duration
       ELSE IF self_end > other.start
              THEN self_end - other.start < total_duration
              ELSE TRUE

\* TimeSpan::touches
touches(self, other) ==
  overlaps(self, other) \/ self.start = End(other) \/ End(self) = other.start

\* TimeSpan::time_between; the minutes of the result are the cast's limbs.
time_between(f, s) ==
  IF touches(f, s)
    THEN None
    ELSE IF f.start > End(s)
           THEN Some([start |-> End(s), minutes |-> AsU32(End(s) - f.start)])
           ELSE Some([start |-> End(f), minutes |-> AsU32(End(f) - s.start)])

\* TimeSpan::advance_and_shorten without the clamp.
advance_and_shorten_unclamped(self, minutes) ==
  [start |-> self.start + minutes, minutes |-> self.minutes - minutes]

\* TimeSpan::advance_and_shorten (self afterwards)
advance_and_shorten(self, minutes) ==
  LET actual_minutes == Min(minutes, self.minutes)
  IN [start |-> self.start + actual_minutes,
      minutes |-> self.minutes - actual_minutes]

(***************************************************************************)
(* Dates and times (chrono)                                                *)
(***************************************************************************)
\* DateTime::date and DateTime::time of a local instant.
DateOf(t) == t \div MinutesPerDay
TimeOf(t) == t % MinutesPerDay

\* Date<Local>::and_time: the instant of a local date and time of day, None
\* when the local timezone has no single instant for it (clock.no_local
\* holds those local date-times).
and_time(date, time) ==
  LET local == date * MinutesPerDay + time
  IN IF local \in clock.no_local THEN None ELSE Some(local)

(***************************************************************************)
(* Stable sorts (slice::sort_by_cached_key)                                *)
(***************************************************************************)
\* The pair `p` = <<key, element>> put into the sorted pairs `s` behind every
\* pair whose key is <= its own.
InsertByKey(s, p) ==
  LET n == Cardinality({i \in 1..Len(s) : s[i][1] <= p[1]})
  IN SubSeq(s, 1, n) \o <<p>> \o SubSeq(s, n + 1, Len(s))

\* sort_by_cached_key: `keys[i]` is the cached key of s[i]; the elements are
\* inserted one by one, in order, so equal keys keep their order.
StableSort(s, keys) ==
  LET sorted[n \in 0..Len(s)] ==
        IF n = 0 THEN <<>> ELSE InsertByKey(sorted[n - 1], <<keys[n], s[n]>>)
  IN [i \in 1..Len(s) |-> sorted[Len(s)][i][2]]

EntryStart(e) == e.span.start
TaskDue(t) == t.due_date

\* The entries left in the order they are in.
sort_entries_skipped(es) == es

\* sort_entries, and the sorts of make and breaks_to_schedule_entries
sort_entries(es) == StableSort(es, [i \in 1..Len(es) |-> EntryStart(es[i])])

\* The tasks in the order given.
TasksAsGiven(ts) == ts

\* tasks.sort_by_cached_key(|t| t.due_date)
SortedTasks(ts) == StableSort(ts, [i \in 1..Len(ts) |-> TaskDue(ts[i])])

(***************************************************************************)
(* PomodoroScheduleEntry (src/src/methods/pomodoro.rs)                     *)
(***************************************************************************)
Job(title, span) == [kind |-> "Job", name |-> title, span |-> span]
Calendar(name, span) == [kind |-> "Calendar", name |-> name, span |-> span]
Break(span) == [kind |-> "Break", name |-> "", span |-> span]
Sleep(span) == [kind |-> "Sleep", name |-> "", span |-> span]

\* From<&CalendarEvent> for PomodoroScheduleEntryIter: the iterator's `next`
initial_item(event) ==
  IF event.event_type = "Event"
    THEN Calendar(event.name, event.time_span)
    ELSE Break(event.time_span)

\* Every repeat taken for a daily one.
RepeatDaysAlwaysOne(repeat) == 1

\* How far a repeat moves the date.
RepeatDays(repeat) == IF repeat = "Daily" THEN 1 ELSE 7

\* PomodoroScheduleEntryIter::next on an iterator whose field `next` is nxt:
\* the item returned, the field afterwards, and whether the unwrap panicked.
IterNext(event, nxt) ==
  IF nxt = None
    THEN [panic |-> FALSE, item |-> None, next |-> nxt]
    ELSE
      LET current_entry == nxt.some
          current_date == DateOf(current_entry.span.start)
          current_time == TimeOf(current_entry.span.start)
          duration == current_entry.span.minutes
      IN IF event.repeat = "No"
           THEN [panic |-> FALSE, item |-> None, next |-> nxt]
           ELSE
             LET t == and_time(current_date + RepeatDays(event.repeat),
                               current_time)
             IN IF t = None
                  THEN [panic |-> TRUE, item |-> None, next |-> nxt]
                  ELSE [panic |-> FALSE,
                        item |-> nxt,
                        next |-> Some([current_entry EXCEPT
                                         !.span = TimeSpan(t.some, duration)])]

\* The horizon taken for a start that is still inside.
StartsBeforeOrAt(span, until) == span.start <= until

\* take_while(|s| *s.span().start() < until)
StartsBefore(span, until) == span.start < until

\* PomodoroScheduleEntryIter::from(&e).take_while(|s| start < until).collect()
RECURSIVE IterTakeWhile(_, _, _)
IterTakeWhile(event, nxt, until) ==
  LET r == IterNext(event, nxt)
  IN IF r.panic THEN [panic |-> TRUE, items |-> <<>>]
     ELSE IF r.item = None \/ ~StartsBefore(r.item.some.span, until)
       THEN [panic |-> FALSE, items |-> <<>>]
       ELSE LET rest == IterTakeWhile(event, r.next, until)
            IN [panic |-> rest.panic, items |-> <<r.item.some>> \o rest.items]

EventOccurrences(event, until) ==
  IterTakeWhile(event, Some(initial_item(event)), until)

\* (bedtime.duration_hours() * 60.0) as u32, the hours held in tenths
BedtimeMinutes(b) ==
  IF b.hours_tenths <= 0 THEN 0 ELSE (b.hours_tenths * 60) \div 10

\* BedtimeScheduleEntryIter::next from `current` on, under
\* take_while(|s| start < until): one Sleep a day.
RECURSIVE BedtimeTakeWhile(_, _)
BedtimeTakeWhile(current, until) ==
  IF ~StartsBefore(current, until) THEN <<>>
  ELSE <<Sleep(current)>>
         \o BedtimeTakeWhile(TimeSpan(current.start + MinutesPerDay,
                                      current.minutes), until)

\* The sleep window anchored on today instead of the day before.
BedtimeOccurrencesFromToday(b, until) ==
  LET t == and_time(clock.today, b.start)
  IN IF t = None THEN [panic |-> TRUE, items |-> <<>>]
     ELSE [panic |-> FALSE,
           items |-> BedtimeTakeWhile(TimeSpan(t.some, BedtimeMinutes(b)), until)]

\* BedtimeScheduleEntryIter::new(bedtime) and its take_while
BedtimeOccurrences(b, until) ==
  LET yesterday == clock.today - 1
      t == and_time(yesterday, b.start)
  IN IF t = None THEN [panic |-> TRUE, items |-> <<>>]
     ELSE [panic |-> FALSE,
           items |-> BedtimeTakeWhile(TimeSpan(t.some, BedtimeMinutes(b)), until)]

\* events.iter().flat_map(...) of breaks_to_schedule_entries
RECURSIVE EventsFlatMap(_, _)
EventsFlatMap(evs, until) ==
  IF evs = <<>> THEN [panic |-> FALSE, items |-> <<>>]
  ELSE LET head == EventOccurrences(Head(evs), until)
           rest == EventsFlatMap(Tail(evs), until)
       IN [panic |-> head.panic \/ rest.panic, items |-> head.items \o rest.items]

\* PomodoroSchedule::breaks_to_schedule_entries
breaks_to_schedule_entries(evs, until, b) ==
  LET ev == EventsFlatMap(evs, until)
      bed == BedtimeOccurrences(b, until)
  IN [panic |-> ev.panic \/ bed.panic,
      items |-> sort_entries(ev.items \o bed.items)]

(***************************************************************************)
(* WorkSession (src/src/methods/pomodoro.rs)                               *)
(***************************************************************************)
\* WorkSession::len_minutes
len_minutes(c) ==
  c.work_periods_per_job_session * c.work_minutes
    + (c.work_periods_per_job_session - 1) * c.short_break_minutes
    + c.long_break_minutes

\* WorkSession::new
NewWorkSession(start, c) ==
  [start |-> start,
   job_names |-> <<>>,
   max_jobs |-> c.work_periods_per_job_session,
   job_len_minutes |-> c.work_minutes,
   break_len_minutes |-> c.short_break_minutes]

\* A session that never reports itself full.
never_full(ws) == FALSE

\* WorkSession::full
full(ws) == Len(ws.job_names) >= ws.max_jobs

\* An add_job that returns Ok and records no job.
add_job_unrecorded(ws, name) == [ok |-> TRUE, session |-> ws]

\* WorkSession::add_job: the session afterwards and whether it returned Ok
add_job(ws, name) ==
  IF ~full(ws)
    THEN [ok |-> TRUE, session |-> [ws EXCEPT !.job_names = Append(@, name)]]
    ELSE [ok |-> FALSE, session |-> ws]

\* WorkSession::ending
ending(ws) ==
  IF ws.job_names = <<>>
    THEN ws.start
    ELSE ws.start + Len(ws.job_names) * ws.job_len_minutes
           + (Len(ws.job_names) - 1) * ws.break_len_minutes

\* The pair with a break of break_len_minutes.
JobAndShortBreak(ws, i) ==
  LET job_break_len == ws.job_len_minutes + ws.break_len_minutes
  IN << Job(ws.job_names[i + 1],
            TimeSpan(ws.start + i * job_break_len, ws.job_len_minutes)),
        Break(TimeSpan(ws.start + ws.job_len_minutes + i * job_break_len,
                       ws.break_len_minutes)) >>

\* The (job, break) pair the flat_map of `into` makes of job i (0-based).
JobAndBreak(ws, i) ==
  LET job_break_len == ws.job_len_minutes + ws.break_len_minutes
  IN << Job(ws.job_names[i + 1],
            TimeSpan(ws.start + i * job_break_len, ws.job_len_minutes)),
        Break(TimeSpan(ws.start + ws.job_len_minutes + i * job_break_len,
                       ws.job_len_minutes)) >>

RECURSIVE JobAndBreakPairs(_, _)
JobAndBreakPairs(ws, i) ==
  IF i >= Len(ws.job_names) THEN <<>>
  ELSE JobAndBreak(ws, i) \o JobAndBreakPairs(ws, i + 1)

\* impl Into<Vec<PomodoroScheduleEntry>> for WorkSession
into(ws) ==
  IF ws.job_names = <<>>
    THEN <<>>
    ELSE SubSeq(JobAndBreakPairs(ws, 0), 1, Len(ws.job_names) * 2 - 1)

(***************************************************************************)
(* PomodoroSchedule (src/src/methods/pomodoro.rs)                          *)
(***************************************************************************)
\* The division rounded down instead.
FloorDiv(m, w) == m \div w

\* (m as f64 / work_minutes as f64).ceil() as u32, for work_minutes > 0
CeilDiv(m, w) == (m + w - 1) \div w

\* The units of the subtasks, last subtask first.
RECURSIVE SubtaskUnitsReversed(_, _, _)
SubtaskUnitsReversed(c, t, subs) ==
  IF subs = <<>> THEN <<>>
  ELSE SubtaskUnitsReversed(c, t, Tail(subs))
         \o << [task |-> t,
                name |-> t.name \o ": " \o Head(subs).name,
                periods_left |-> CeilDiv(Head(subs).duration, c.work_minutes)] >>

\* The units one task contributes.
RECURSIVE SubtaskUnits(_, _, _)
SubtaskUnits(c, t, subs) ==
  IF subs = <<>> THEN <<>>
  ELSE << [task |-> t,
           name |-> t.name \o ": " \o Head(subs).name,
           periods_left |-> CeilDiv(Head(subs).duration, c.work_minutes)] >>
         \o SubtaskUnits(c, t, Tail(subs))

TaskUnits(c, t) ==
  IF t.duration.kind = "Minutes"
    THEN << [task |-> t,
             name |-> t.name,
             periods_left |-> CeilDiv(t.duration.minutes, c.work_minutes)] >>
    ELSE SubtaskUnits(c, t, t.duration.subs)

\* PomodoroSchedule::unscheduled_periods_from_tasks
RECURSIVE unscheduled_periods_from_tasks(_, _)
unscheduled_periods_from_tasks(c, ts) ==
  IF ts = <<>> THEN <<>>
  ELSE TaskUnits(c, Head(ts)) \o unscheduled_periods_from_tasks(c, Tail(ts))

\* skip_while(|e| e.span().end() <= now)
RECURSIVE SkipEnded(_, _)
SkipEnded(es, now) ==
  IF es # <<>> /\ End(Head(es).span) <= now THEN SkipEnded(Tail(es), now) ELSE es

\* take_while(|e| *e.span().start() < until)
RECURSIVE TakeBefore(_, _)
TakeBefore(es, until) ==
  IF es # <<>> /\ Head(es).span.start < until
    THEN <<Head(es)>> \o TakeBefore(Tail(es), until)
    ELSE <<>>

\* The sessions of a pair with the last one started in the leftover.
SessionsBetweenRoundedUp(end, beginning_next, c) ==
  IF beginning_next > end
    THEN LET free_minutes == beginning_next - end
             num_possible_work_sessions ==
               (free_minutes + len_minutes(c) - 1) \div len_minutes(c)
         IN [i \in 1..num_possible_work_sessions |->
               NewWorkSession(end + (i - 1) * len_minutes(c), c)]
    ELSE <<>>

\* The sessions the flat_map closure makes of one (end, beginning_next) pair.
SessionsBetween(end, beginning_next, c) ==
  IF beginning_next > end
    THEN LET free_minutes == beginning_next - end
             num_possible_work_sessions == free_minutes \div len_minutes(c)
         IN [i \in 1..num_possible_work_sessions |->
               NewWorkSession(end + (i - 1) * len_minutes(c), c)]
    ELSE <<>>

RECURSIVE ConcatAll(_)
ConcatAll(ss) == IF ss = <<>> THEN <<>> ELSE Head(ss) \o ConcatAll(Tail(ss))

\* PomodoroSchedule::get_open_work_sessions, `now` being its Local::now()
get_open_work_sessions(es, c, until, now) ==
  LET filtered_entries == TakeBefore(SkipEnded(es, now), until)
      n == Len(filtered_entries)
      span_beginnings == [i \in 1..(n + 1) |->
                            IF i <= n THEN filtered_entries[i].span.start ELSE until]
      span_endings == [i \in 1..(n + 1) |->
                         IF i = 1 THEN now ELSE End(filtered_entries[i - 1].span)]
  IN ConcatAll([i \in 1..(n + 1) |->
                  SessionsBetween(span_endings[i], span_beginnings[i], c)])

\* The closure should_retain of fill_free_time, `now` being its Local::now()
should_retain(u, now) ==
  u.periods_left > 0 /\ u.task.due_date > now /\ ~u.task.done

\* The entries the last loop of fill_free_time appends for the sessions.
RECURSIVE SessionEntries(_, _)
SessionEntries(sessions, c) ==
  IF sessions = <<>> THEN <<>>
  ELSE LET work_session == Head(sessions)
           long_break == Break(TimeSpan(ending(work_session), c.long_break_minutes))
       IN into(work_session) \o <<long_break>> \o SessionEntries(Tail(sessions), c)

(***************************************************************************)
(* PomodoroSchedule::make, in steps: make up to the 'sessions loop of      *)
(* fill_free_time, the loop's steps, and the rest of both functions.       *)
(***************************************************************************)
\* tasks.last().map(|t| t.due_date) without the None of an empty list.
LastDueDateOrEpoch(ts) ==
  IF ts = <<>> THEN Some(0) ELSE Some(ts[Len(ts)].due_date)

\* tasks.last().map(|t| t.due_date) (and sorted_tasks.last() of Ivy-Lee)
LastDueDate(ts) ==
  IF ts = <<>> THEN None ELSE Some(ts[Len(ts)].due_date)

RetainNow(u) == should_retain(u, clock.now_fill)
HasPeriodsLeft(p) == p.periods_left > 0

\* make, lines 27-43, and fill_free_time, lines 66-76
PomodoroMake ==
  /\ method = "pomodoro"
  /\ pc = "start"
  /\ LET ts == SortedTasks(tasks)
     IN IF LastDueDate(ts) = None
          THEN /\ result' = "Err"
               /\ pc' = "done"
               /\ UNCHANGED pomodoroVars
          ELSE
            LET last_due_date == LastDueDate(ts).some
                fixed == breaks_to_schedule_entries(events, last_due_date, bedtime)
                sorted == sort_entries(fixed.items)
            IN IF fixed.panic
                 THEN /\ result' = "panic"
                      /\ pc' = "done"
                      /\ UNCHANGED pomodoroVars
                 ELSE /\ entries' = sorted
                      /\ backbone' = sorted
                      /\ periods_left' = unscheduled_periods_from_tasks(config, ts)
                      /\ open_sessions' =
                           get_open_work_sessions(sorted, config, last_due_date,
                                                  clock.now_sessions)
                      /\ si' = 1
                      /\ pc' = "sessions"
                      /\ UNCHANGED <<result, ui, generated>>
  /\ UNCHANGED <<spanVars, inputVars, daemonVars, unscheduled, ivyVars>>

\* 'sessions: for open_session in open_sessions.iter_mut(): the loop's head
\* and the retain of line 79
BeginSession ==
  /\ pc = "sessions"
  /\ IF si > Len(open_sessions)
       THEN /\ pc' = "report"
            /\ UNCHANGED <<periods_left, ui>>
       ELSE /\ periods_left' = SelectSeq(periods_left, RetainNow)
            /\ ui' = 1
            /\ pc' = "units"
  /\ UNCHANGED <<spanVars, inputVars, daemonVars, unscheduled, result, ivyVars,
                 entries, open_sessions, si, backbone, generated>>

\* for unscheduled in periods_left.iter_mut(): the loop's head and lines 82-86
VisitUnit ==
  /\ pc = "units"
  /\ IF ui > Len(periods_left)
       THEN /\ si' = si + 1
            /\ pc' = "sessions"
            /\ ui' = ui
       ELSE IF ~RetainNow(periods_left[ui])
         THEN /\ ui' = ui + 1
              /\ UNCHANGED <<si, pc>>
         ELSE IF full(open_sessions[si])
           THEN /\ si' = si + 1
                /\ pc' = "sessions"
                /\ ui' = ui
           ELSE /\ pc' = "while"
                /\ UNCHANGED <<si, ui>>
  /\ UNCHANGED <<spanVars, inputVars, daemonVars, unscheduled, result, ivyVars,
                 entries, periods_left, open_sessions, backbone, generated>>

\* while unscheduled.periods_left > 0 && !open_session.full(): one test of the
\* condition and, when it holds, one run of the body (lines 87-90)
WhileStep ==
  /\ pc = "while"
  /\ IF periods_left[ui].periods_left > 0 /\ ~full(open_sessions[si])
       THEN LET added == add_job(open_sessions[si], periods_left[ui].name)
            IN IF added.ok
                 THEN /\ open_sessions' = [open_sessions EXCEPT ![si] = added.session]
                      /\ periods_left' =
                           [periods_left EXCEPT ![ui].periods_left = @ - 1]
                      /\ UNCHANGED <<pc, ui, result>>
                 ELSE /\ result' = "panic"
                      /\ pc' = "done"
                      /\ UNCHANGED <<open_sessions, periods_left, ui>>
       ELSE /\ ui' = ui + 1
            /\ pc' = "units"
            /\ UNCHANGED <<open_sessions, periods_left, result>>
  /\ UNCHANGED <<spanVars, inputVars, daemonVars, unscheduled, ivyVars,
                 entries, si, backbone, generated>>

\* The warning line without the conversion of periods to minutes.
WarningLineInPeriods(p) == [name |-> p.name, minutes |-> p.periods_left]

\* The name and the minutes of one line of the warning (lines 102-106)
WarningLine(p) == [name |-> p.name, minutes |-> p.periods_left * config.work_minutes]

\* fill_free_time, lines 95-117, and make, lines 45-48
Report ==
  /\ pc = "report"
  /\ LET left == SelectSeq(periods_left, HasPeriodsLeft)
         appended == SessionEntries(open_sessions, config)
     IN /\ periods_left' = left
        /\ unscheduled' = [i \in 1..Len(left) |-> WarningLine(left[i])]
        /\ generated' = appended
        /\ entries' = sort_entries(entries \o appended)
  /\ result' = "Ok"
  /\ pc' = "done"
  /\ UNCHANGED <<spanVars, inputVars, daemonVars, ivyVars, open_sessions, si, ui, backbone>>

NextPomodoro == PomodoroMake \/ BeginSession \/ VisitUnit \/ WhileStep \/ Report

(***************************************************************************)
(* PomodoroSchedule::make as a function of its arguments and of the three  *)
(* clock reads: what the steps above arrive at.                            *)
(***************************************************************************)
\* `n` times the name `name`
Repeated(name, n) == [k \in 1..n |-> name]

\* for unscheduled in periods_left.iter_mut() (lines 81-92), from unit i on:
\* the units and the session afterwards.
RECURSIVE FillFrom(_, _, _, _)
FillFrom(units, session, i, now) ==
  IF i > Len(units) THEN [units |-> units, session |-> session]
  ELSE IF ~should_retain(units[i], now)
    THEN FillFrom(units, session, i + 1, now)
    ELSE IF full(session)
      THEN [units |-> units, session |-> session]
      ELSE LET n == Min(units[i].periods_left,
                        session.max_jobs - Len(session.job_names))
           IN FillFrom([units EXCEPT ![i].periods_left = @ - n],
                       [session EXCEPT !.job_names = @ \o Repeated(units[i].name, n)],
                       i + 1, now)

\* 'sessions: for open_session in open_sessions.iter_mut() (lines 78-93):
\* the units and the sessions afterwards.
RECURSIVE FillSessions(_, _, _)
FillSessions(units, sessions, now) ==
  IF sessions = <<>> THEN [units |-> units, sessions |-> <<>>]
  ELSE LET retained == SelectSeq(units, LAMBDA u : should_retain(u, now))
           one == FillFrom(retained, Head(sessions), 1, now)
           rest == FillSessions(one.units, Tail(sessions), now)
       IN [units |-> rest.units, sessions |-> <<one.session>> \o rest.sessions]

\* breaks_to_schedule_entries when Local::today() returns `today` (every
\* local date and time having an instant)
BackboneAt(today, until) ==
  sort_entries(
    EventsFlatMap(events, until).items
      \o BedtimeTakeWhile(TimeSpan((today - 1) * MinutesPerDay + bedtime.start,
                                   BedtimeMinutes(bedtime)), until))

\* The entries of the schedule make returns when Local::today() returns
\* `today`, the Local::now() of get_open_work_sessions `now_sessions` and the
\* Local::now() of fill_free_time `now_fill`.
MakeEntries(today, now_sessions, now_fill) ==
  LET ts == SortedTasks(tasks)
      until == LastDueDate(ts).some
      fixed == sort_entries(BackboneAt(today, until))
      sessions == get_open_work_sessions(fixed, config, until, now_sessions)
      packed == FillSessions(unscheduled_periods_from_tasks(config, ts),
                             sessions, now_fill)
  IN sort_entries(fixed \o SessionEntries(packed.sessions, config))

(***************************************************************************)
(* IvyLeeSchedule::make (src/src/methods/ivy_lee.rs), in steps: make up to *)
(* the walk, one day of the walk, and the warnings and the return.         *)
(***************************************************************************)
\* Date::weekday, day 0 being a Monday (0 = Mon .. 6 = Sun)
WeekdayOf(d) == d % 7

\* Whole days rounded up instead of towards zero.
NumDaysRoundedUp(minutes) == (minutes + MinutesPerDay - 1) \div MinutesPerDay

\* Duration::num_days: whole days, rounded towards zero
NumDays(minutes) ==
  IF minutes >= 0 THEN minutes \div MinutesPerDay
  ELSE -((-minutes) \div MinutesPerDay)

\* Bedtime::end: the time of day the sleep window ends (wake time)
bedtime_end(b) == (b.start + BedtimeMinutes(b)) % MinutesPerDay

\* Task::is_past_due: the due date has passed at `now`
is_past_due(t, now) == t.due_date < now

\* Task::is_considered: `now` is within the consideration window
is_considered(t, now) ==
  t.due_date - t.consideration_period_days * MinutesPerDay <= now

\* A day that always has room for one more task.
has_room_always(day_tasks) == TRUE

\* day_tasks.len() < config.ivy_lee_tasks_per_day as usize (line 67)
has_room(day_tasks) == Len(day_tasks) < config.ivy_lee_tasks_per_day

\* No day taken for a skip day.
skips_no_day(d) == FALSE

\* config.skip_days.contains(&day.weekday()) (line 54)
skips_day(d) == WeekdayOf(d) \in config.skip_days

\* The scan of a day that neither passes over a task past its due date nor
\* takes a finished task off the queue.
RECURSIVE IvyRetainNeverDone(_, _, _)
IvyRetainNeverDone(q, start_of_day, day_tasks) ==
  IF q = <<>> THEN [kept |-> <<>>, day_tasks |-> day_tasks]
  ELSE
    LET t == Head(q)
        takes == has_room(day_tasks) /\ is_considered(t, start_of_day)
        days_until_due == NumDays(t.due_date - start_of_day) + 1
        label == IF days_until_due = 1
                   THEN "Finish " \o t.name
                   ELSE "1/" \o ToString(days_until_due)
                          \o " of remaining " \o t.name
        rest == IvyRetainNeverDone(Tail(q), start_of_day,
                  IF takes THEN Append(day_tasks, label) ELSE day_tasks)
    IN [kept |-> <<t>> \o rest.kept, day_tasks |-> rest.day_tasks]

\* The closure taking every task while the day has room, eligible or not.
RECURSIVE IvyRetainEveryTask(_, _, _)
IvyRetainEveryTask(q, start_of_day, day_tasks) ==
  IF q = <<>> THEN [kept |-> <<>>, day_tasks |-> day_tasks]
  ELSE
    LET t == Head(q)
        takes == has_room(day_tasks)
        days_until_due == NumDays(t.due_date - start_of_day) + 1
        label == IF days_until_due = 1
                   THEN "Finish " \o t.name
                   ELSE "1/" \o ToString(days_until_due)
                          \o " of remaining " \o t.name
        keep == ~(takes /\ days_until_due = 1)
        rest == IvyRetainEveryTask(Tail(q), start_of_day,
                                   IF takes THEN Append(day_tasks, label) ELSE day_tasks)
    IN [kept |-> (IF keep THEN <<t>> ELSE <<>>) \o rest.kept,
        day_tasks |-> rest.day_tasks]

\* The closure of sorted_tasks.retain (lines 64-83), run over the queue `q`
\* with day_tasks as it stands: the tasks kept and day_tasks afterwards.
RECURSIVE IvyRetain(_, _, _)
IvyRetain(q, start_of_day, day_tasks) ==
  IF q = <<>> THEN [kept |-> <<>>, day_tasks |-> day_tasks]
  ELSE
    LET t == Head(q)
        takes == /\ has_room(day_tasks)
                 /\ ~is_past_due(t, start_of_day)
                 /\ is_considered(t, start_of_day)
        days_until_due == NumDays(t.due_date - start_of_day) + 1
        label == IF days_until_due = 1
                   THEN "Finish " \o t.name
                   ELSE "1/" \o ToString(days_until_due)
                          \o " of remaining " \o t.name
        keep == ~(takes /\ days_until_due = 1)
        rest == IvyRetain(Tail(q), start_of_day,
                          IF takes THEN Append(day_tasks, label) ELSE day_tasks)
    IN [kept |-> (IF keep THEN <<t>> ELSE <<>>) \o rest.kept,
        day_tasks |-> rest.day_tasks]

\* HashMap::insert
MapInsert(map, k, v) ==
  [x \in (DOMAIN map) \cup {k} |-> IF x = k THEN v ELSE map[x]]

\* The due date of the task due first.
EarliestDueDate == SortedTasks(tasks)[1].due_date

\* latest_due_date of make (lines 34-44), for a task list that is not empty
LatestDueDate == LastDueDate(SortedTasks(tasks)).some

\* lines 24-50
IvyLeeMake ==
  /\ method = "ivy_lee"
  /\ pc = "start"
  /\ LET v == SortedTasks(tasks)
     IN IF LastDueDate(v) = None
          THEN /\ result' = "Err"
               /\ pc' = "done"
               /\ UNCHANGED ivyVars
          ELSE /\ sorted_tasks' = v
               /\ task_days' = <<>>
               /\ day' = clock.today
               /\ pc' = "walk"
               /\ UNCHANGED result
  /\ UNCHANGED <<spanVars, inputVars, daemonVars, unscheduled, pomodoroVars>>

\* one test of `while day <= latest_due_date.date()` and one run of its body
\* (lines 52-94)
IvyLeeDay ==
  /\ pc = "walk"
  /\ IF ~(day <= DateOf(LatestDueDate))
       THEN /\ pc' = "warn"
            /\ UNCHANGED ivyVars
       ELSE IF skips_day(day)
         THEN /\ day' = day + 1
              /\ UNCHANGED <<pc, sorted_tasks, task_days>>
         ELSE
           LET start_of_day == and_time(day, bedtime_end(bedtime))
           IN IF start_of_day = None
                THEN /\ pc' = "warn"
                     /\ UNCHANGED ivyVars
                ELSE LET r == IvyRetain(sorted_tasks, start_of_day.some, <<>>)
                     IN /\ sorted_tasks' = r.kept
                        /\ task_days' = MapInsert(task_days, day, r.day_tasks)
                        /\ day' = day + 1
                        /\ UNCHANGED pc
  /\ UNCHANGED <<spanVars, inputVars, daemonVars, unscheduled, result, pomodoroVars>>

\* The line eprintln! writes before the names (line 97), and the line of one
\* task (line 99)
WarningHeader == "WARNING: the following tasks couldn't be scheduled completely:"
WarningOf(t) == "\t" \o t.name

\* lines 96-102: the lines written to stderr, and the return
IvyLeeFinish ==
  /\ pc = "warn"
  /\ unscheduled' = <<WarningHeader>>
                      \o [i \in 1..Len(sorted_tasks) |-> WarningOf(sorted_tasks[i])]
  /\ result' = "Ok"
  /\ pc' = "done"
  /\ UNCHANGED <<spanVars, inputVars, daemonVars, pomodoroVars, ivyVars>>

NextIvyLee == IvyLeeMake \/ IvyLeeDay \/ IvyLeeFinish

(***************************************************************************)
(* The inputs make is run on.                                              *)
(***************************************************************************)
\* The local instant of `h`:`mi` on day `d`.
At(d, h, mi) == d * MinutesPerDay + h * 60 + mi

\* Config::default (src/src/data.rs)
DefaultConfig ==
  [work_minutes |-> 25,
   short_break_minutes |-> 5,
   long_break_minutes |-> 15,
   work_periods_per_job_session |-> 4,
   skip_days |-> {},
   ivy_lee_tasks_per_day |-> 6,
   next_event_warning_minutes |-> 5]

\* Bedtime::default (src/src/spans.rs): 20:00, 10 hours
DefaultBedtime == [start |-> At(0, 20, 0), hours_tenths |-> 100]

Minutes(m) == [kind |-> "Minutes", minutes |-> m, subs |-> <<>>]
Subtasks(subs) == [kind |-> "Subtasks", minutes |-> 0, subs |-> subs]

TaskNames == <<"A", "B", "C", "D">>

\* Every list of at most MaxTasks tasks over `templates`, the i-th task
\* named TaskNames[i].
TaskLists(templates) ==
  UNION {
    { [i \in 1..n |-> [name |-> TaskNames[i],
                       due_date |-> f[i].due_date,
                       duration |-> f[i].duration,
                       done |-> f[i].done,
                       consideration_period_days |-> f[i].consideration_period_days]]
      : f \in [1..n -> templates] }
    : n \in 0..MaxTasks }

\* Every list of at most MaxEvents events over `templates`.
EventLists(templates) == UNION { [1..n -> templates] : n \in 0..MaxEvents }

\* The clock reads of one run: Local::today() of BedtimeScheduleEntryIter::new
\* (and of IvyLeeSchedule::make), then Local::now() of get_open_work_sessions,
\* then Local::now() of fill_free_time, `drift` apart.
ClockReads(now, drift) ==
  [today |-> DateOf(now),
   now_sessions |-> now + drift[1],
   now_fill |-> now + drift[1] + drift[2],
   no_local |-> {}]

\* Runs start in the sleep window or in the morning of day 1 (a Tuesday).
NowChoices == {At(1, 2, 0), At(1, 9, 0)}
ClockDrifts == {<<0, 0>>, <<0, 1>>}
Clocks == {ClockReads(now, d) : now \in NowChoices, d \in ClockDrifts}

PomodoroTaskTemplates ==
  { [due_date |-> d, duration |-> Minutes(m), done |-> FALSE,
     consideration_period_days |-> 3]
    : d \in {At(1, 11, 0), At(1, 13, 0)}, m \in {50, 180} }

PomodoroEventTemplates ==
  { [name |-> "dentist", time_span |-> TimeSpan(At(1, 10, 0), 30),
     event_type |-> "Event", repeat |-> "No"],
    [name |-> "tv", time_span |-> TimeSpan(At(0, 22, 0), 30),
     event_type |-> "Event", repeat |-> "Daily"],
    [name |-> "", time_span |-> TimeSpan(At(1, 10, 0), 30),
     event_type |-> "Break", repeat |-> "Daily"],
    [name |-> "class", time_span |-> TimeSpan(At(-6, 10, 0), 30),
     event_type |-> "Event", repeat |-> "Weekly"] }

PomodoroConfigs ==
  { [DefaultConfig EXCEPT !.work_periods_per_job_session = p,
                          !.short_break_minutes = s]
    : p \in 1..MaxPeriodsPerSession, s \in {5, 30} }

\* Tasks due at noon of day 2 or 3, before the wake time of day 3, or
\* already past due on day 0; considered from 1 or 3 days before.
IvyLeeTaskTemplates ==
  { [due_date |-> d, duration |-> Minutes(50), done |-> FALSE,
     consideration_period_days |-> c]
    : d \in {At(0, 12, 0), At(2, 12, 0), At(3, 5, 0), At(3, 12, 0)},
      c \in {1, 3} }

\* Quotas of no, one and six tasks a day; no skip day, or Wednesday (day 2)
\* or Thursday (day 3) skipped.
IvyLeeConfigs ==
  { [DefaultConfig EXCEPT !.ivy_lee_tasks_per_day = q, !.skip_days = sk]
    : q \in {0, 1, 6}, sk \in {{}, {2}, {3}} }

\* The walk reads the clock once, for today (day 1, a Tuesday).
IvyLeeClocks == {ClockReads(At(1, 9, 0), <<0, 0>>)}

IdleSpans ==
  /\ first = TimeSpan(0, 0)
  /\ second = TimeSpan(0, 0)
  /\ minutes_arg = 0
  /\ op = "idle"
  /\ ret = None

StartOfMake ==
  /\ pc = "start"
  /\ unscheduled = <<>>
  /\ result = "none"
  /\ entries = <<>>
  /\ periods_left = <<>>
  /\ open_sessions = <<>>
  /\ si = 0
  /\ ui = 0
  /\ backbone = <<>>
  /\ generated = <<>>
  /\ day = 0
  /\ sorted_tasks = <<>>
  /\ task_days = <<>>

\* No daemon runs.
IdleDaemon ==
  /\ schedule = <<>>
  /\ lock_holder = "none"
  /\ poisoned = FALSE
  /\ main_pc = "idle"
  /\ watcher_pc = "idle"
  /\ pending = None
  /\ file_events = 0
  /\ wall = 0
  /\ loop_now = 0
  /\ current_event = None
  /\ next_event = None
  /\ notified_of_current_event = FALSE
  /\ warned_of_next_event = FALSE
  /\ note = None
  /\ reads_since_sleep = 0
  /\ last_written = <<>>
  /\ last_read = None
  /\ issued = [now |-> 0, warning |-> 0]

IdleMake ==
  /\ method = "none"
  /\ config = DefaultConfig
  /\ tasks = <<>>
  /\ events = <<>>
  /\ bedtime = DefaultBedtime
  /\ clock = ClockReads(0, <<0, 0>>)
  /\ StartOfMake

InitPomodoro ==
  /\ IdleDaemon
  /\ IdleSpans
  /\ method = "pomodoro"
  /\ config \in PomodoroConfigs
  /\ tasks \in TaskLists(PomodoroTaskTemplates)
  /\ events \in EventLists(PomodoroEventTemplates)
  /\ bedtime = DefaultBedtime
  /\ clock \in Clocks
  /\ StartOfMake

InitIvyLee ==
  /\ IdleDaemon
  /\ IdleSpans
  /\ method = "ivy_lee"
  /\ config \in IvyLeeConfigs
  /\ tasks \in TaskLists(IvyLeeTaskTemplates)
  /\ events = <<>>
  /\ bedtime = DefaultBedtime
  /\ clock \in IvyLeeClocks
  /\ StartOfMake

SpecPomodoro == InitPomodoro /\ [][NextPomodoro]_vars

SpecIvyLee == InitIvyLee /\ [][NextIvyLee]_vars

Init == InitPomodoro \/ InitIvyLee
Next == NextPomodoro \/ NextIvyLee
Spec == Init /\ [][Next]_vars

(***************************************************************************)
(* Pomodoro runs over a horizon of several days, by a clock that moves    *)
(* between the reads: a run made at night, in the morning, or around       *)
(* midnight, with a task that falls due right after the run starts.        *)
(***************************************************************************)
HorizonNowChoices == {At(0, 23, 59), At(1, 2, 0), At(1, 9, 0)}
HorizonClockDrifts == {<<0, 0>>, <<0, 1>>, <<1, 0>>}
HorizonClocks ==
  {ClockReads(now, d) : now \in HorizonNowChoices, d \in HorizonClockDrifts}

HorizonTaskTemplates ==
  { [due_date |-> d, duration |-> Minutes(50), done |-> FALSE,
     consideration_period_days |-> 3]
    : d \in {At(1, 9, 1), At(2, 12, 0), At(2, 18, 0)} }

HorizonEventTemplates ==
  { [name |-> "tv", time_span |-> TimeSpan(At(0, 18, 0), 30),
     event_type |-> "Event", repeat |-> "Daily"],
    [name |-> "class", time_span |-> TimeSpan(At(-6, 10, 0), 30),
     event_type |-> "Event", repeat |-> "Weekly"] }

InitHorizon ==
  /\ IdleDaemon
  /\ IdleSpans
  /\ method = "pomodoro"
  /\ config = DefaultConfig
  /\ tasks \in TaskLists(HorizonTaskTemplates)
  /\ events \in EventLists(HorizonEventTemplates)
  /\ bedtime = DefaultBedtime
  /\ clock \in HorizonClocks
  /\ StartOfMake

SpecHorizon == InitHorizon /\ [][NextPomodoro]_vars

(***************************************************************************)
(* Pomodoro runs of one morning: sessions of one period or more, a lunch   *)
(* break every day, and tasks of two and four periods due in the           *)
(* afternoon, so that several sessions are filled.                         *)
(***************************************************************************)
SessionConfigs ==
  { [DefaultConfig EXCEPT !.work_periods_per_job_session = p]
    : p \in 1..MaxPeriodsPerSession }

SessionTaskTemplates ==
  { [due_date |-> d, duration |-> Minutes(m), done |-> FALSE,
     consideration_period_days |-> 3]
    : d \in {At(1, 11, 0), At(1, 16, 0)}, m \in {50, 100} }

SessionEventTemplates ==
  { [name |-> "lunch", time_span |-> TimeSpan(At(0, 12, 0), 30),
     event_type |-> "Break", repeat |-> "Daily"] }

\* Runs start in the morning or during lunch.
SessionClocks ==
  {ClockReads(now, <<0, 0>>) : now \in {At(1, 9, 0), At(1, 12, 10)}}

InitSessions ==
  /\ IdleDaemon
  /\ IdleSpans
  /\ method = "pomodoro"
  /\ config \in SessionConfigs
  /\ tasks \in TaskLists(SessionTaskTemplates)
  /\ events \in EventLists(SessionEventTemplates)
  /\ bedtime = DefaultBedtime
  /\ clock \in SessionClocks
  /\ StartOfMake

SpecSessions == InitSessions /\ [][NextPomodoro]_vars

(***************************************************************************)
(* Pomodoro runs over tasks with subtasks: each task is a flat half hour   *)
(* or the subtasks x (50 minutes) and y (30 minutes), due the same         *)
(* afternoon, at the same hour or not.                                     *)
(***************************************************************************)
SubtaskTaskTemplates ==
  { [due_date |-> d, duration |-> dur, done |-> FALSE,
     consideration_period_days |-> 3]
    : d \in {At(1, 13, 0), At(1, 16, 0)},
      dur \in {Minutes(30),
               Subtasks(<<[name |-> "x", duration |-> 50],
                          [name |-> "y", duration |-> 30]>>)} }

InitSubtasks ==
  /\ IdleDaemon
  /\ IdleSpans
  /\ method = "pomodoro"
  /\ config \in SessionConfigs
  /\ tasks \in TaskLists(SubtaskTaskTemplates)
  /\ events \in EventLists(SessionEventTemplates)
  /\ bedtime = DefaultBedtime
  /\ clock = ClockReads(At(1, 9, 0), <<0, 0>>)
  /\ StartOfMake

SpecSubtasks == InitSubtasks /\ [][NextPomodoro]_vars

(***************************************************************************)
(* Runs of both packers in a timezone where one local date-time has no     *)
(* single instant (a clock change): the wake time of day 2, or 18:00 of    *)
(* day 2, or none.                                                         *)
(***************************************************************************)
NoLocalChoices == {{}, {At(2, 6, 0)}, {At(2, 18, 0)}}
GapClocks ==
  {[ClockReads(At(1, 9, 0), <<0, 0>>) EXCEPT !.no_local = g] : g \in NoLocalChoices}

InitGap ==
  /\ IdleDaemon
  /\ IdleSpans
  /\ method \in {"pomodoro", "ivy_lee"}
  /\ config = DefaultConfig
  /\ tasks \in TaskLists(HorizonTaskTemplates)
  /\ events \in EventLists(HorizonEventTemplates)
  /\ bedtime = DefaultBedtime
  /\ clock \in GapClocks
  /\ StartOfMake

SpecGap == InitGap /\ [][Next]_vars

(***************************************************************************)
(* The daemon (src/src/bin/sparrowd.rs): the polling loop of main and the  *)
(* "data file watcher" thread, sharing the schedule behind schedule_mutex. *)
(* The wall clock counts ticks of 30 seconds; the instants of the entries  *)
(* are whole minutes.                                                      *)
(***************************************************************************)
InTicks(minutes) == minutes * TicksPerMinute

\* schedule_mutex.lock().unwrap(): a poisoned lock aborts the thread.
lock_unwrap(is_poisoned) == IF is_poisoned THEN "abort" ELSE "guard"

\* match schedule_mutex.lock() { Ok(g) => g, Err(poisoned) => poisoned.into_inner() }
lock_into_inner(is_poisoned) == "guard"

\* skip_while(|e| e.span().end() <= now), now in ticks
RECURSIVE SkipEndedAt(_, _)
SkipEndedAt(es, t) ==
  IF es = <<>> THEN <<>>
  ELSE IF InTicks(End(Head(es).span)) <= t THEN SkipEndedAt(Tail(es), t)
  ELSE es

\* Iterator::next on the skipped entries, n-th call
NthOrNone(es, n) == IF Len(es) >= n THEN Some(es[n]) ELSE None

\* PomodoroScheduleEntry::title
title(e) ==
  IF e.kind \in {"Job", "Calendar"} THEN e.name
  ELSE IF e.kind = "Break" THEN "Break" ELSE "Sleep"

\* The top of the loop of main: lines 56-71, up to the call of
\* reassign_current_next_events or to the notifications.
MainTop ==
  /\ main_pc = "top"
  /\ loop_now' = wall
  /\ main_pc' =
       IF current_event # None /\ next_event # None
         THEN IF \/ InTicks(End(current_event.some.span)) < wall
                 \/ InTicks(next_event.some.span.start) <= wall
                 \/ (current_event = None /\ next_event = None)
                THEN "reassign" ELSE "notify"
         ELSE IF current_event = None /\ next_event = None
                THEN "reassign" ELSE "notify"
  /\ UNCHANGED <<spanVars, inputVars, makeVars, issued, schedule, lock_holder, poisoned,
                 watcher_pc, pending, file_events, wall, current_event,
                 next_event, notified_of_current_event, warned_of_next_event,
                 note, reads_since_sleep, last_written, last_read>>

\* reassign_current_next_events, line 126: its own read of the clock
MainReassign ==
  /\ main_pc = "reassign"
  /\ loop_now' = wall
  /\ main_pc' = "lock"
  /\ UNCHANGED <<spanVars, inputVars, makeVars, issued, schedule, lock_holder, poisoned,
                 watcher_pc, pending, file_events, wall, current_event,
                 next_event, notified_of_current_event, warned_of_next_event,
                 note, reads_since_sleep, last_written, last_read>>

\* reassign_current_next_events, lines 128-131: the lock is taken
MainLock ==
  /\ main_pc = "lock"
  /\ lock_holder = "none"
  /\ IF lock_into_inner(poisoned) = "guard"
       THEN lock_holder' = "main" /\ main_pc' = "locked"
       ELSE lock_holder' = lock_holder /\ main_pc' = "aborted"
  /\ UNCHANGED <<spanVars, inputVars, makeVars, issued, schedule, poisoned,
                 watcher_pc, pending, file_events, wall, loop_now, current_event,
                 next_event, notified_of_current_event, warned_of_next_event,
                 note, reads_since_sleep, last_written, last_read>>

\* reassign_current_next_events, lines 133-141, the guard dropped at its end,
\* and lines 62-64 (68-70) of main
MainRead ==
  /\ main_pc = "locked"
  /\ LET skipped == SkipEndedAt(schedule, loop_now)
     IN /\ current_event' = NthOrNone(skipped, 1)
        /\ next_event' = NthOrNone(skipped, 2)
  /\ lock_holder' = "none"
  /\ notified_of_current_event' = FALSE
  /\ warned_of_next_event' = FALSE
  /\ reads_since_sleep' = Min(reads_since_sleep + 1, 2)
  /\ last_read' = Some([poisoned |-> poisoned, entries |-> schedule,
                        written |-> last_written])
  /\ issued' = [now |-> 0, warning |-> 0]
  /\ main_pc' = "top"
  /\ UNCHANGED <<spanVars, inputVars, makeVars, schedule, poisoned,
                 watcher_pc, pending, file_events, wall, loop_now,
                 note, last_written>>

\* main panics while it holds the guard: the mutex is poisoned and unlocked
MainPanic ==
  /\ main_pc = "locked"
  /\ poisoned' = TRUE
  /\ lock_holder' = "none"
  /\ main_pc' = "panicked"
  /\ UNCHANGED <<spanVars, inputVars, makeVars, issued, schedule,
                 watcher_pc, pending, file_events, wall, loop_now, current_event,
                 next_event, notified_of_current_event, warned_of_next_event,
                 note, reads_since_sleep, last_written, last_read>>

\* The notification of lines 73-88
NowNote ==
  IF current_event # None
    THEN Some([kind |-> "Now", entry |-> current_event.some])
    ELSE None

\* A warning that is due at any time.
WarningAlwaysDue == TRUE

\* now >= next.start - next_event_warning_minutes (lines 92-97)
WarningIsDue ==
  loop_now >= InTicks(next_event.some.span.start)
                - InTicks(config.next_event_warning_minutes)

\* lines 73-110 of main
MainNotify ==
  /\ main_pc = "notify"
  /\ IF ~notified_of_current_event
       THEN /\ note' = NowNote
            /\ notified_of_current_event' = TRUE
            /\ UNCHANGED warned_of_next_event
       ELSE IF ~warned_of_next_event
         THEN IF next_event # None
                THEN IF WarningIsDue
                       THEN /\ note' = Some([kind |-> "In", entry |-> next_event.some])
                            /\ warned_of_next_event' = TRUE
                            /\ UNCHANGED notified_of_current_event
                       ELSE /\ note' = None
                            /\ UNCHANGED <<notified_of_current_event,
                                           warned_of_next_event>>
                ELSE /\ note' = None
                     /\ warned_of_next_event' = TRUE
                     /\ UNCHANGED notified_of_current_event
         ELSE /\ note' = None
              /\ UNCHANGED <<notified_of_current_event, warned_of_next_event>>
  /\ issued' = IF note' = None THEN issued
               ELSE IF note'.some.kind = "Now"
                 THEN [issued EXCEPT !.now = Min(@ + 1, 2)]
                 ELSE [issued EXCEPT !.warning = Min(@ + 1, 2)]
  /\ main_pc' = "sleep"
  /\ UNCHANGED <<spanVars, inputVars, makeVars, schedule, lock_holder, poisoned,
                 watcher_pc, pending, file_events, wall, loop_now, current_event,
                 next_event, reads_since_sleep, last_written, last_read>>

\* thread::sleep(std::time::Duration::from_secs(30)) (line 112); the clock
\* stands at MaxWall for every later instant
MainSleep ==
  /\ main_pc = "sleep"
  /\ wall' = Min(wall + 1, MaxWall)
  /\ reads_since_sleep' = 0
  /\ note' = None
  /\ main_pc' = "top"
  /\ UNCHANGED <<spanVars, inputVars, makeVars, issued, schedule, lock_holder, poisoned,
                 watcher_pc, pending, file_events, loop_now, current_event,
                 next_event, notified_of_current_event, warned_of_next_event,
                 last_written, last_read>>

\* The clock moves while main is not asleep.
TimePasses ==
  /\ main_pc \notin {"idle", "sleep"}
  /\ wall < MaxWall
  /\ wall' = wall + 1
  /\ UNCHANGED <<spanVars, inputVars, makeVars, issued, schedule, lock_holder, poisoned,
                 main_pc, watcher_pc, pending, file_events, loop_now,
                 current_event, next_event, notified_of_current_event,
                 warned_of_next_event, note, reads_since_sleep, last_written,
                 last_read>>

\* The schedules a data file holds.
DaemonSchedules ==
  { <<Job("A", TimeSpan(1, 1)), Break(TimeSpan(2, 1)), Job("B", TimeSpan(4, 1))>>,
    <<Break(TimeSpan(1, 3)), Job("A", TimeSpan(2, 1))>>,
    <<Job("A", TimeSpan(1, 1))>>,
    <<>> }

\* What rx.recv() returns: a write or a rename of a file that loads to a
\* schedule, of one without a Pomodoro schedule, or of one that fails to
\* load; a removal; a watcher error; another event; a closed channel.
FileEvents ==
  {[kind |-> k, load |-> "ok", schedule |-> sch]
     : k \in {"Write", "Rename"}, sch \in DaemonSchedules}
  \cup {[kind |-> k, load |-> l, schedule |-> <<>>]
     : k \in {"Write", "Rename"}, l \in {"no_schedule", "error"}}
  \cup {[kind |-> k, load |-> "none", schedule |-> <<>>]
     : k \in {"Remove", "Error", "Other", "Disconnected"}}

\* watch_file, lines 157-159 and 175-181: an event is received
WatcherRecv ==
  /\ watcher_pc = "recv"
  /\ file_events < MaxFileEvents
  /\ file_events' = file_events + 1
  /\ \E ev \in FileEvents :
       /\ pending' = IF ev.kind \in {"Write", "Rename"}
                       THEN Some([load |-> ev.load, schedule |-> ev.schedule])
                       ELSE None
       /\ watcher_pc' =
            IF ev.kind \in {"Write", "Rename"} THEN "lock"
            ELSE IF ev.kind = "Other" THEN "recv"
            ELSE "crashed"
  /\ UNCHANGED <<spanVars, inputVars, makeVars, issued, schedule, lock_holder, poisoned,
                 main_pc, wall, loop_now, current_event, next_event,
                 notified_of_current_event, warned_of_next_event, note,
                 reads_since_sleep, last_written, last_read>>

\* watch_file, lines 161-164: the lock is taken
WatcherLock ==
  /\ watcher_pc = "lock"
  /\ lock_holder = "none"
  /\ IF lock_into_inner(poisoned) = "guard"
       THEN lock_holder' = "watcher" /\ watcher_pc' = "locked"
       ELSE lock_holder' = lock_holder /\ watcher_pc' = "aborted"
  /\ UNCHANGED <<spanVars, inputVars, makeVars, issued, schedule, poisoned,
                 main_pc, pending, file_events, wall, loop_now, current_event,
                 next_event, notified_of_current_event, warned_of_next_event,
                 note, reads_since_sleep, last_written, last_read>>

\* A failed load that leaves an empty schedule behind the mutex.
store_or_clear(ev, old) == IF ev.load = "ok" THEN ev.schedule ELSE <<>>

\* What the mutex holds after `*schedule = match UserData::from_file(p)`:
\* the schedule of the file, or, when the match breaks out of the loop, the
\* value it held.
store_or_break(ev, old) == IF ev.load = "ok" THEN ev.schedule ELSE old

\* watch_file, lines 165-174: the file is loaded and the schedule replaced,
\* or the loop is left; the guard is dropped either way
WatcherLoad ==
  /\ watcher_pc = "locked"
  /\ lock_holder' = "none"
  /\ schedule' = store_or_break(pending.some, schedule)
  /\ IF pending.some.load = "ok"
       THEN /\ last_written' = pending.some.schedule
            /\ watcher_pc' = "recv"
       ELSE /\ UNCHANGED last_written
            /\ watcher_pc' = "crashed"
  /\ pending' = None
  /\ UNCHANGED <<spanVars, inputVars, makeVars, issued, poisoned,
                 main_pc, file_events, wall, loop_now, current_event,
                 next_event, notified_of_current_event, warned_of_next_event,
                 note, reads_since_sleep, last_read>>

\* The watcher panics while it holds the guard, before the assignment: the
\* mutex is poisoned and unlocked.
WatcherPanic ==
  /\ watcher_pc = "locked"
  /\ poisoned' = TRUE
  /\ lock_holder' = "none"
  /\ watcher_pc' = "panicked"
  /\ UNCHANGED <<spanVars, inputVars, makeVars, issued, schedule,
                 main_pc, pending, file_events, wall, loop_now, current_event,
                 next_event, notified_of_current_event, warned_of_next_event,
                 note, reads_since_sleep, last_written, last_read>>

\* main, lines 40-53: the schedule of the data file is put behind the mutex,
\* the watcher is started, and the loop is entered with no event assigned.
InitDaemon ==
  /\ IdleSpans
  /\ method = "none"
  /\ config = [DefaultConfig EXCEPT !.next_event_warning_minutes = 1]
  /\ tasks = <<>>
  /\ events = <<>>
  /\ bedtime = DefaultBedtime
  /\ clock = ClockReads(0, <<0, 0>>)
  /\ StartOfMake
  /\ schedule \in DaemonSchedules
  /\ last_written = schedule
  /\ lock_holder = "none"
  /\ poisoned = FALSE
  /\ main_pc = "top"
  /\ watcher_pc = "recv"
  /\ pending = None
  /\ file_events = 0
  /\ wall = 0
  /\ loop_now = 0
  /\ current_event = None
  /\ next_event = None
  /\ notified_of_current_event = FALSE
  /\ warned_of_next_event = FALSE
  /\ note = None
  /\ reads_since_sleep = 0
  /\ last_read = None
  /\ issued = [now |-> 0, warning |-> 0]

NextDaemon ==
  \/ MainTop \/ MainReassign \/ MainLock \/ MainRead \/ MainPanic
  \/ MainNotify \/ MainSleep \/ TimePasses
  \/ WatcherRecv \/ WatcherLock \/ WatcherLoad \/ WatcherPanic

SpecDaemon == InitDaemon /\ [][NextDaemon]_vars

\* The steps of the polling loop, and the steps the watcher takes once it has
\* received an event.
MainRuns ==
  MainTop \/ MainReassign \/ MainLock \/ MainRead \/ MainNotify \/ MainSleep
WatcherRuns == WatcherLock \/ WatcherLoad

\* The daemon with both threads scheduled: a thread that can take its next
\* step takes it. File events come when they come; neither thread has to
\* panic.
SpecDaemonRuns ==
  InitDaemon /\ [][NextDaemon]_vars /\ WF_vars(MainRuns) /\ WF_vars(WatcherRuns)

(***************************************************************************)
(* The span-algebra harness: two spans and an argument are drawn, then one *)
(* of the functions is applied to them.                                    *)
(***************************************************************************)
HarnessSpans == {TimeSpan(s, n) : s \in 0..MaxStart, n \in 0..MaxMinutes}

InitSpans ==
  /\ IdleDaemon
  /\ first \in HarnessSpans
  /\ second \in HarnessSpans
  /\ minutes_arg \in 0..(MaxMinutes + 1)
  /\ op = "none"
  /\ ret = None
  /\ IdleMake

Overlaps ==
  /\ op = "none"
  /\ op' = "overlaps"
  /\ ret' = overlaps(first, second)
  /\ UNCHANGED <<first, second, minutes_arg, inputVars, daemonVars, makeVars>>

Touches ==
  /\ op = "none"
  /\ op' = "touches"
  /\ ret' = touches(first, second)
  /\ UNCHANGED <<first, second, minutes_arg, inputVars, daemonVars, makeVars>>

TimeBetween ==
  /\ op = "none"
  /\ op' = "time_between"
  /\ ret' = time_between(first, second)
  /\ UNCHANGED <<first, second, minutes_arg, inputVars, daemonVars, makeVars>>

AdvanceAndShorten ==
  /\ op = "none"
  /\ op' = "advance_and_shorten"
  /\ ret' = advance_and_shorten(first, minutes_arg)
  /\ UNCHANGED <<first, second, minutes_arg, inputVars, daemonVars, makeVars>>

NextSpans == Overlaps \/ Touches \/ TimeBetween \/ AdvanceAndShorten

SpecSpans == InitSpans /\ [][NextSpans]_vars

(***************************************************************************)
(* Vocabulary of the properties.                                           *)
(***************************************************************************)
\* Two spans share an instant (their interiors meet).
ShareTime(x, y) == x.start < End(y) /\ y.start < End(x)

\* The Pomodoro make has returned Ok.
PomodoroOk == method = "pomodoro" /\ pc = "done" /\ result = "Ok"

\* The units of the tasks as decomposed at the start of packing.
InitialUnits == unscheduled_periods_from_tasks(config, SortedTasks(tasks))

\* The labels of the units of task t, and the task a Job title belongs to
\* (task names are distinct).
UnitNames(t) == {TaskUnits(config, t)[i].name : i \in DOMAIN TaskUnits(config, t)}
TaskOfTitle(label) ==
  CHOOSE t \in {tasks[i] : i \in DOMAIN tasks} : label \in UnitNames(t)

\* The positions of the Job entries titled `label` in the list `es`.
JobsTitled(es, label) ==
  {i \in DOMAIN es : es[i].kind = "Job" /\ es[i].name = label}

\* A unit is eligible: its task is not done and is due after fill_free_time's now.
Eligible(u) == ~u.task.done /\ u.task.due_date > clock.now_fill

RECURSIVE SumPeriods(_)
SumPeriods(us) ==
  IF us = <<>> THEN 0
  ELSE (IF Eligible(Head(us)) THEN Head(us).periods_left ELSE 0) + SumPeriods(Tail(us))

\* The work periods the open sessions hold, and those the eligible units need.
Capacity == Len(open_sessions) * config.work_periods_per_job_session
Need == SumPeriods(InitialUnits)

\* The least number of whole periods of w minutes that cover m minutes.
PeriodsFor(m, w) == CHOOSE k \in 0..m : k * w >= m /\ (k = 0 \/ (k - 1) * w < m)

(***************************************************************************)
(* C1. Expanding an event whose repeat is Repeat::No and whose anchor      *)
(* starts before the horizon yields the anchor and nothing more, and the   *)
(* fixed backbone holds that occurrence exactly once.                      *)
(***************************************************************************)
C1_NeverYieldsTheAnchorOnce ==
  (method = "pomodoro" /\ pc \in {"sessions", "units", "while", "report"}) =>
    \A i \in DOMAIN events :
      (events[i].repeat = "No" /\ events[i].time_span.start < LatestDueDate) =>
        /\ EventOccurrences(events[i], LatestDueDate).items
             = <<initial_item(events[i])>>
        /\ Cardinality({k \in DOMAIN backbone :
                          backbone[k] = initial_item(events[i])}) = 1

(***************************************************************************)
(* C2. In a returned Pomodoro schedule no two of the entries generated     *)
(* from work sessions (Job, short Break, long Break) overlap in time.      *)
(***************************************************************************)
C2_SessionEntriesDoNotOverlap ==
  PomodoroOk =>
    \A i, j \in DOMAIN generated :
      i < j => ~ShareTime(generated[i].span, generated[j].span)

(***************************************************************************)
(* C3. In a returned Pomodoro schedule no Job entry overlaps a fixed entry *)
(* (Calendar occurrence, authored Break or Sleep).                         *)
(***************************************************************************)
C3_JobsAvoidFixedEntries ==
  PomodoroOk =>
    \A i \in DOMAIN generated : \A k \in DOMAIN backbone :
      generated[i].kind = "Job" =>
        ~ShareTime(generated[i].span, backbone[k].span)

(***************************************************************************)
(* C4. No Job of a task is placed in a session that starts at or after     *)
(* that task's own due date.                                               *)
(***************************************************************************)
C4_NoJobInSessionAfterOwnDueDate ==
  PomodoroOk =>
    \A k \in DOMAIN open_sessions : \A j \in DOMAIN open_sessions[k].job_names :
      open_sessions[k].start < TaskOfTitle(open_sessions[k].job_names[j]).due_date

(***************************************************************************)
(* C5. With an empty task list both make operations return an error and    *)
(* no schedule: neither ever returns Ok, and no entry list or day map is   *)
(* built.                                                                  *)
(***************************************************************************)
C5_EmptyTaskListIsAnError ==
  (method \in {"pomodoro", "ivy_lee"} /\ tasks = <<>>) =>
    /\ result \in {"none", "Err"}
    /\ pc = "done" => result = "Err"
    /\ pc \in {"start", "done"}
    /\ entries = <<>> /\ generated = <<>> /\ task_days = <<>>

C5_Witness == tasks = <<>> /\ pc = "done" /\ result = "Err"

(***************************************************************************)
(* C6. When the open sessions hold fewer work periods than the eligible    *)
(* units need, Pomodoro make still returns Ok; the schedule holds exactly  *)
(* the periods placed (for each eligible unit, its Jobs plus its periods   *)
(* left make its initial count), and every eligible unit with periods left *)
(* has one warning line, of periods_left * work_minutes > 0 minutes.       *)
(***************************************************************************)
C6_ShortageIsReportedNotFailed ==
  (method = "pomodoro" /\ pc = "done" /\ tasks # <<>> /\ Capacity < Need) =>
    /\ result = "Ok"
    /\ \A n \in DOMAIN InitialUnits :
         LET u == InitialUnits[n]
             placed == Cardinality(JobsTitled(entries, u.name))
             left == u.periods_left - placed
             lines == {l \in DOMAIN unscheduled : unscheduled[l].name = u.name}
         IN Eligible(u) =>
              /\ left >= 0
              /\ Cardinality(JobsTitled(generated, u.name)) = placed
              /\ left > 0 =>
                   /\ Cardinality(lines) = 1
                   /\ \A l \in lines :
                        /\ unscheduled[l].minutes = left * config.work_minutes
                        /\ unscheduled[l].minutes > 0
              /\ left = 0 => lines = {}
    /\ \E n \in DOMAIN InitialUnits :
         /\ Eligible(InitialUnits[n])
         /\ Cardinality(JobsTitled(entries, InitialUnits[n].name))
              < InitialUnits[n].periods_left

C6_Witness ==
  /\ PomodoroOk
  /\ Capacity < Need
  /\ Capacity > 0
  /\ \E i \in DOMAIN entries : entries[i].kind = "Job"
  /\ Len(unscheduled) = 2

(***************************************************************************)
(* C7. A single task, not done, due after now, of a flat m minutes: when   *)
(* the open sessions hold at least ceil(m / work_minutes) periods, the     *)
(* schedule holds exactly that many Jobs titled with the task's name, each *)
(* work_minutes long and ending no later than the due date, and nothing is *)
(* reported unscheduled.                                                   *)
(***************************************************************************)
C7_SingleTaskIsFullyScheduled ==
  (/\ method = "pomodoro" /\ pc = "done"
   /\ Len(tasks) = 1
   /\ ~tasks[1].done
   /\ tasks[1].due_date > clock.now_fill
   /\ tasks[1].duration.kind = "Minutes"
   /\ Capacity >= PeriodsFor(tasks[1].duration.minutes, config.work_minutes)) =>
    /\ result = "Ok"
    /\ Cardinality(JobsTitled(entries, tasks[1].name))
         = PeriodsFor(tasks[1].duration.minutes, config.work_minutes)
    /\ \A i \in DOMAIN entries :
         entries[i].kind = "Job" =>
           /\ entries[i].name = tasks[1].name
           /\ entries[i].span.minutes = config.work_minutes
           /\ End(entries[i].span) <= tasks[1].due_date
    /\ unscheduled = <<>>

\* The instance of the claim: 50 minutes at work_minutes = 25 gives 2 Jobs.
C7_Witness ==
  /\ PomodoroOk
  /\ Len(tasks) = 1
  /\ tasks[1].duration = Minutes(50)
  /\ config.work_minutes = 25
  /\ Cardinality(JobsTitled(entries, tasks[1].name)) = 2
  /\ unscheduled = <<>>

(***************************************************************************)
(* C8. For all spans in either argument order: time_between is None        *)
(* exactly when the spans touch; otherwise it is the span that starts at   *)
(* the earlier span's end and whose minutes are the distance               *)
(* later.start - earlier.end.                                              *)
(***************************************************************************)
C8_GapIsTheDistanceBetween ==
  op = "time_between" =>
    LET apart == ~(ShareTime(first, second)
                     \/ End(first) = second.start \/ End(second) = first.start)
        earlier == IF first.start <= second.start THEN first ELSE second
        later == IF first.start <= second.start THEN second ELSE first
    IN /\ (ret = None) <=> ~apart
       /\ apart =>
            /\ ret.some.start = End(earlier)
            /\ ret.some.minutes = AsU32(later.start - End(earlier))

(***************************************************************************)
(* C9. For all spans, zero-length ones included: overlaps is false         *)
(* whenever one span ends where the other starts, and otherwise true       *)
(* exactly when each starts before the other ends.                         *)
(***************************************************************************)
C9_OverlapsExcludesAbutting ==
  op = "overlaps" =>
    ret = (IF End(first) = second.start \/ End(second) = first.start
             THEN FALSE
             ELSE first.start < End(second) /\ second.start < End(first))

(***************************************************************************)
(* C10. advance_and_shorten(m) keeps the end of the span, takes min(m,     *)
(* minutes) off its length (never below 0) and moves its start forward by  *)
(* as much; m > minutes leaves a zero-length span at the original end, and *)
(* m = 0 leaves the span as it was.                                        *)
(***************************************************************************)
C10_ShrinkFromStartClamps ==
  op = "advance_and_shorten" =>
    LET taken == IF minutes_arg <= first.minutes THEN minutes_arg ELSE first.minutes
    IN /\ End(ret) = End(first)
       /\ ret.minutes = first.minutes - taken
       /\ ret.minutes >= 0
       /\ ret.start = first.start + taken
       /\ minutes_arg > first.minutes => ret = TimeSpan(End(first), 0)
       /\ minutes_arg = 0 => ret = first

C10_Witness ==
  /\ op = "advance_and_shorten"
  /\ first.minutes > 0
  /\ minutes_arg > first.minutes
  /\ ret = TimeSpan(End(first), 0)

(***************************************************************************)
(* Vocabulary of the recurrence properties.                                *)
(***************************************************************************)
\* The fixed backbone has been built by a Pomodoro make.
BackboneBuilt ==
  method = "pomodoro" /\ pc \in {"sessions", "units", "while", "report"}

\* The occurrence of event e that is k repeats after its anchor.
OccurrenceAt(e, k) ==
  [initial_item(e) EXCEPT
     !.span = TimeSpan(e.time_span.start
                         + k * (IF e.repeat = "Weekly" THEN 7 ELSE 1) * MinutesPerDay,
                       e.time_span.minutes)]

\* The occurrences of a repeating event e that start before the horizon h.
OccurrencesBefore(e, h) ==
  IF h <= e.time_span.start THEN {}
  ELSE {OccurrenceAt(e, k) : k \in
          {k \in 0..((h - e.time_span.start) \div MinutesPerDay) :
             OccurrenceAt(e, k).span.start < h}}

Repeating(e) == e.repeat \in {"Daily", "Weekly"}

\* How often x occurs in the list es.
CountIn(es, x) == Cardinality({k \in DOMAIN es : es[k] = x})

(***************************************************************************)
(* C11. For a Weekly (Daily) event with anchor start A and horizon H the   *)
(* expansion is exactly the occurrences starting at A + 7k days (A + k     *)
(* days), k >= 0, that start before H, each once and each with the         *)
(* anchor's name, kind and length; the backbone holds each of them (as     *)
(* often as repeating events yield it), and every Calendar or Break entry  *)
(* of the backbone starts before H.                                        *)
(***************************************************************************)
C11_RepeatsFillTheHorizon ==
  BackboneBuilt =>
    /\ \A i \in DOMAIN events :
         Repeating(events[i]) =>
           LET items == EventOccurrences(events[i], LatestDueDate).items
               expected == OccurrencesBefore(events[i], LatestDueDate)
           IN /\ {items[k] : k \in DOMAIN items} = expected
              /\ Len(items) = Cardinality(expected)
              /\ \A x \in expected :
                   CountIn(backbone, x)
                     = Cardinality({j \in DOMAIN events :
                          /\ Repeating(events[j])
                          /\ x \in OccurrencesBefore(events[j], LatestDueDate)})
    /\ \A k \in DOMAIN backbone :
         backbone[k].kind \in {"Calendar", "Break"} =>
           /\ backbone[k].span.start < LatestDueDate
           /\ \E j \in DOMAIN events :
                \/ /\ Repeating(events[j])
                   /\ backbone[k] \in OccurrencesBefore(events[j], LatestDueDate)
                \/ /\ events[j].repeat = "No"
                   /\ backbone[k] = initial_item(events[j])

\* A Weekly event whose anchor and whose occurrence a week later are both
\* in the backbone, and whose occurrence two weeks later is not.
C11_Witness ==
  /\ BackboneBuilt
  /\ \E i \in DOMAIN events :
       /\ events[i].repeat = "Weekly"
       /\ CountIn(backbone, OccurrenceAt(events[i], 0)) = 1
       /\ CountIn(backbone, OccurrenceAt(events[i], 1)) = 1
       /\ CountIn(backbone, OccurrenceAt(events[i], 2)) = 0

(***************************************************************************)
(* C12. The Sleep entries of the backbone are exactly, and each once, the  *)
(* spans of hours*60 minutes that start at the bedtime start on the day    *)
(* before today and on every following day, as long as the start is        *)
(* before the horizon (the latest due date); so a sleep window that is in  *)
(* progress at now and started before the horizon is in the backbone.      *)
(***************************************************************************)
\* The sleep window of the night that begins on day d.
SleepOn(d) ==
  Sleep(TimeSpan(d * MinutesPerDay + bedtime.start, (bedtime.hours_tenths * 60) \div 10))

\* The days, from yesterday on, whose bedtime is before the horizon.
SleepDays ==
  {d \in (clock.today - 1)..DateOf(LatestDueDate) :
     SleepOn(d).span.start < LatestDueDate}

C12_SleepEveryNightToTheHorizon ==
  BackboneBuilt =>
    /\ \A d \in SleepDays : CountIn(backbone, SleepOn(d)) = 1
    /\ \A k \in DOMAIN backbone :
         backbone[k].kind = "Sleep" =>
           \E d \in SleepDays : backbone[k] = SleepOn(d)
    /\ \A d \in (clock.today - 1)..clock.today :
         (/\ SleepOn(d).span.start <= clock.now_sessions
          /\ clock.now_sessions < End(SleepOn(d).span)
          /\ SleepOn(d).span.start < LatestDueDate) =>
           CountIn(backbone, SleepOn(d)) = 1

\* A run made at night: the window that began yesterday evening is in
\* progress and in the backbone, and tonight's window follows it.
C12_Witness ==
  /\ BackboneBuilt
  /\ SleepOn(clock.today - 1).span.start <= clock.now_sessions
  /\ clock.now_sessions < End(SleepOn(clock.today - 1).span)
  /\ CountIn(backbone, SleepOn(clock.today - 1)) = 1
  /\ CountIn(backbone, SleepOn(clock.today)) = 1
  /\ CountIn(backbone, SleepOn(clock.today + 1)) = 0

(***************************************************************************)
(* The schedule the steps of make arrive at is MakeEntries of the run's    *)
(* three clock reads.                                                      *)
(***************************************************************************)
StepsArriveAtMakeEntries ==
  PomodoroOk =>
    entries = MakeEntries(clock.today, clock.now_sessions, clock.now_fill)

(***************************************************************************)
(* C13. The entry list a Pomodoro make returns is a function of the tasks, *)
(* events, sleep window, config and one `now`: it is the list make returns *)
(* when every read of the clock (the date of today and both reads of the   *)
(* time) gives that one `now`, for the `now` of one of the run's reads.    *)
(***************************************************************************)
C13_ResultDependsOnOneNow ==
  PomodoroOk =>
    \E now \in {clock.now_sessions, clock.now_fill} :
      entries = MakeEntries(DateOf(now), now, now)

(***************************************************************************)
(* C14. The entry list a Pomodoro make returns is sorted ascending by      *)
(* start and holds exactly the entries of the fixed backbone and the       *)
(* entries generated from the sessions, each as often as the two hold it:  *)
(* no backbone entry is lost or changed, none is added.                    *)
(***************************************************************************)
C14_ResultIsBackbonePlusGeneratedSorted ==
  PomodoroOk =>
    /\ \A i, j \in DOMAIN entries :
         i < j => entries[i].span.start <= entries[j].span.start
    /\ Len(entries) = Len(backbone) + Len(generated)
    /\ \A x \in {entries[k] : k \in DOMAIN entries}
                  \cup {backbone[k] : k \in DOMAIN backbone}
                  \cup {generated[k] : k \in DOMAIN generated} :
         CountIn(entries, x) = CountIn(backbone, x) + CountIn(generated, x)

\* A schedule in which a generated Job starts before a backbone entry and
\* another backbone entry starts before that Job.
C14_Witness ==
  /\ PomodoroOk
  /\ \E g \in DOMAIN generated : \E a, b \in DOMAIN backbone :
       /\ generated[g].kind = "Job"
       /\ backbone[a].span.start < generated[g].span.start
       /\ generated[g].span.start < backbone[b].span.start

(***************************************************************************)
(* Vocabulary of the Ivy-Lee properties.                                   *)
(***************************************************************************)
\* The Ivy-Lee make has returned Ok.
IvyLeeOk == method = "ivy_lee" /\ pc = "done" /\ result = "Ok"

\* The instant day d starts at: the wake time, the end of the sleep window.
StartOfDay(d) == d * MinutesPerDay + bedtime_end(bedtime)

\* The label of task t with denominator k ("Finish" for 1).
LabelOf(t, k) ==
  IF k = 1 THEN "Finish " \o t.name
  ELSE "1/" \o ToString(k) \o " of remaining " \o t.name

\* The denominators a label of the walk can have.
Denominators == 1..(DateOf(LatestDueDate) - clock.today + 2)

\* The labels the day map holds for day d (none when it has no entry for d).
LabelsOn(d) ==
  IF d \in DOMAIN task_days
    THEN {task_days[d][i] : i \in DOMAIN task_days[d]}
    ELSE {}

\* The denominators of the labels task t has on day d.
DenominatorsOn(t, d) == {k \in Denominators : LabelOf(t, k) \in LabelsOn(d)}

TaskSet == {tasks[i] : i \in DOMAIN tasks}

C16_NoEntryOnSkipDays ==
  method = "ivy_lee" =>
    \A d \in DOMAIN task_days : (d % 7) \notin config.skip_days

\* A walk over a skipped Wednesday with a task in the queue: the days
\* before and after it have labels, the Wednesday has no entry.
C16_Witness ==
  /\ IvyLeeOk
  /\ config.skip_days = {2}
  /\ DOMAIN task_days = {1, 3}
  /\ task_days[1] # <<>>
  /\ task_days[3] # <<>>

(***************************************************************************)
(* C17. A task that is eligible on a skipped day of the Ivy-Lee walk (not  *)
(* past due and considered at that day's start, not finished before it) is *)
(* not dropped: when the quota has a slot for every task, it has a label   *)
(* on the next day that is not skipped, and it ends with a "Finish" label; *)
(* also when the skipped day is the last day before its due date.          *)
(***************************************************************************)
\* The days the walk goes through.
WalkDays == clock.today..DateOf(LatestDueDate)

\* Task t is in the queue and eligible at the start of day d.
EligibleOn(t, d) ==
  /\ ~(t.due_date < StartOfDay(d))
  /\ t.due_date - t.consideration_period_days * MinutesPerDay <= StartOfDay(d)
  /\ \A e \in DOMAIN task_days : e < d => 1 \notin DenominatorsOn(t, e)

\* The first day after d whose weekday is not skipped.
NextWorkDay(d) ==
  CHOOSE n \in (d + 1)..(d + 7) :
    /\ (n % 7) \notin config.skip_days
    /\ \A m \in (d + 1)..(n - 1) : (m % 7) \in config.skip_days

C17_SkippedDayDefersTheTask ==
  (/\ IvyLeeOk
   /\ Len(tasks) <= config.ivy_lee_tasks_per_day) =>
    \A t \in TaskSet : \A d \in WalkDays :
      ((d % 7) \in config.skip_days /\ EligibleOn(t, d)) =>
        /\ DenominatorsOn(t, NextWorkDay(d)) # {}
        /\ \E e \in DOMAIN task_days : 1 \in DenominatorsOn(t, e)

(***************************************************************************)
(* C18. At every step of the Ivy-Lee walk and in its result, every day's   *)
(* list holds at most ivy_lee_tasks_per_day labels and at most one label   *)
(* of each task; with a quota of 0 every list is empty.                    *)
(***************************************************************************)
\* The positions of day d's list that hold a label of task t.
LabelPositions(t, d) ==
  {i \in DOMAIN task_days[d] :
     \E k \in Denominators : task_days[d][i] = LabelOf(t, k)}

C18_QuotaBoundsEveryDay ==
  method = "ivy_lee" =>
    \A d \in DOMAIN task_days :
      /\ Len(task_days[d]) <= config.ivy_lee_tasks_per_day
      /\ \A t \in TaskSet : Cardinality(LabelPositions(t, d)) <= 1
      /\ config.ivy_lee_tasks_per_day = 0 => task_days[d] = <<>>

\* A day on which two tasks are eligible and the quota of one is used up.
C18_Witness ==
  /\ IvyLeeOk
  /\ config.ivy_lee_tasks_per_day = 1
  /\ Len(tasks) = 2
  /\ \E d \in DOMAIN task_days :
       /\ \A t \in TaskSet : EligibleOn(t, d)
       /\ Len(task_days[d]) = 1

(***************************************************************************)
(* C19. At every step of the Ivy-Lee walk and in its result, each task has *)
(* the label "Finish <task>" at most once (on one day at most, once in     *)
(* that day's list), and no label at all on any day after that day.        *)
(***************************************************************************)
\* The days on which task t is labeled "Finish".
FinishDays(t) == {d \in DOMAIN task_days : 1 \in DenominatorsOn(t, d)}

C19_FinishedOnceAndForAll ==
  method = "ivy_lee" =>
    \A t \in TaskSet :
      /\ Cardinality(FinishDays(t)) <= 1
      /\ \A d \in FinishDays(t) :
           /\ Cardinality({i \in DOMAIN task_days[d] :
                             task_days[d][i] = LabelOf(t, 1)}) = 1
           /\ \A e \in DOMAIN task_days :
                e > d => DenominatorsOn(t, e) = {}

\* A task finished on a day that is followed by a day on which another
\* task is labeled.
C19_Witness ==
  /\ IvyLeeOk
  /\ \E t \in TaskSet : \E d \in FinishDays(t) : \E e \in DOMAIN task_days :
       /\ e > d
       /\ task_days[e] # <<>>

(***************************************************************************)
(* C20. When the Ivy-Lee make returns for a task list that is not empty,   *)
(* it returns Ok (with the day map); a task is reported as unscheduled     *)
(* exactly when no day holds its "Finish" label; and when every task was   *)
(* finished nothing is reported.                                           *)
(***************************************************************************)
\* The lines the walk has written as warnings.
Reported == {unscheduled[i] : i \in DOMAIN unscheduled}

C20_UnfinishedTasksAreReported ==
  (method = "ivy_lee" /\ pc = "done" /\ tasks # <<>>) =>
    /\ result = "Ok"
    /\ \A t \in TaskSet : (WarningOf(t) \in Reported) <=> (FinishDays(t) = {})
    /\ (\A t \in TaskSet : FinishDays(t) # {}) => unscheduled = <<>>

(***************************************************************************)
(* C21: when a thread of the daemon panics while it holds the schedule     *)
(* lock, the next acquisition of the lock by the other thread does not     *)
(* abort: no thread is ever aborted by a poisoned lock, and a read of the  *)
(* polling loop, under a poisoned lock too, sees the value written last.   *)
(***************************************************************************)
C21_PoisonedLockIsRecovered ==
  /\ main_pc # "aborted"
  /\ watcher_pc # "aborted"
  /\ (poisoned /\ lock_holder = "none" =>
        /\ (main_pc = "lock" => ENABLED MainLock)
        /\ (watcher_pc = "lock" => ENABLED WatcherLock))
  /\ (last_read # None => last_read.some.entries = last_read.some.written)

\* The watcher panicked holding the lock, and the polling loop has read the
\* schedule through the poisoned lock since.
C21_Witness ==
  /\ watcher_pc = "panicked"
  /\ main_pc = "top"
  /\ last_read # None
  /\ last_read.some.poisoned

(***************************************************************************)
(* C22: the polling loop reads the snapshot at most once per poll          *)
(* interval: between two consecutive reads it sleeps, whatever the         *)
(* schedule holds.                                                         *)
(***************************************************************************)
C22_SleepsBetweenReads == reads_since_sleep <= 1

(***************************************************************************)
(* C23: when a local date and a time of day compose to no valid local      *)
(* instant (the wake time of a day the Ivy-Lee walk visits, or the next    *)
(* occurrence of a recurrence), the packer returns an error: it neither    *)
(* returns an Ok schedule nor aborts.                                      *)
(***************************************************************************)
\* The wake time of a day the walk has to visit has no local instant.
WakeTimeMissed ==
  /\ method = "ivy_lee"
  /\ tasks # <<>>
  /\ \E d \in clock.today..DateOf(LatestDueDate) :
       /\ d % 7 \notin config.skip_days
       /\ (d * MinutesPerDay + bedtime_end(bedtime)) \in clock.no_local

\* An occurrence the backbone's generators compute has no local instant.
OccurrenceMissed ==
  /\ method = "pomodoro"
  /\ tasks # <<>>
  /\ breaks_to_schedule_entries(events, LatestDueDate, bedtime).panic

C23_NoLocalInstantIsAnError ==
  pc = "done" /\ (WakeTimeMissed \/ OccurrenceMissed) => result = "Err"

(***************************************************************************)
(* C24: building the backbone terminates: from a Daily or Weekly event     *)
(* with anchor A and step p, and from the sleep window, the generator is   *)
(* asked only up to the first occurrence that starts at or after the       *)
(* horizon H, so it yields ((H - 1 - A) div p) + 1 entries when A < H and  *)
(* none otherwise, the occurrence refused is the first one at or after H,  *)
(* and the backbone holds exactly the entries taken.                       *)
(***************************************************************************)
\* How many occurrences A, A + p, ... start before h.
TakenBefore(A, p, h) == IF A >= h THEN 0 ELSE ((h - 1 - A) \div p) + 1

StepOf(e) == IF e.repeat = "Weekly" THEN 7 * 1440 ELSE 1440

SleepAnchor == (clock.today - 1) * 1440 + bedtime.start

\* The number of entries each generator is due, over all events.
RECURSIVE TakenOfEvents(_, _)
TakenOfEvents(evs, h) ==
  IF evs = <<>> THEN 0
  ELSE (IF Head(evs).repeat = "No" THEN 0
        ELSE TakenBefore(Head(evs).time_span.start, StepOf(Head(evs)), h))
       + TakenOfEvents(Tail(evs), h)

C24_BackboneGeneratorsStop ==
  BackboneBuilt =>
    LET h == LatestDueDate
    IN /\ \A i \in DOMAIN events :
            LET e == events[i]
                A == e.time_span.start
                n == Len(EventOccurrences(e, h).items)
            IN e.repeat # "No" =>
                 /\ n = TakenBefore(A, StepOf(e), h)
                 /\ A + n * StepOf(e) >= h
                 /\ n > 0 => A + (n - 1) * StepOf(e) < h
       /\ LET n == Len(BedtimeOccurrences(bedtime, h).items)
          IN /\ n = TakenBefore(SleepAnchor, 1440, h)
             /\ SleepAnchor + n * 1440 >= h
       /\ Len(backbone) = TakenOfEvents(events, h) + TakenBefore(SleepAnchor, 1440, h)

\* A backbone built up to a horizon at which an occurrence of a repeating
\* event starts: that occurrence is the one refused.
C24_Witness ==
  /\ BackboneBuilt
  /\ \E i \in DOMAIN events :
       /\ events[i].repeat = "Daily"
       /\ events[i].time_span.start < LatestDueDate
       /\ (LatestDueDate - events[i].time_span.start) % 1440 = 0
  /\ Len(backbone) >= 5

(***************************************************************************)
(* C25: a session that holds n >= 1 jobs is appended as 2n - 1 entries,    *)
(* Job and Break in turn, and one long Break after them: job i starts at   *)
(* start + i * (work_minutes + short_break_minutes) and lasts              *)
(* work_minutes; the break after job i < n - 1 starts at the job's end     *)
(* and lasts work_minutes; the long Break starts at start + n *            *)
(* work_minutes + (n - 1) * short_break_minutes and lasts                  *)
(* long_break_minutes.                                                     *)
(***************************************************************************)
\* How many entries the sessions before session k are appended as.
RECURSIVE EntriesBefore(_)
EntriesBefore(k) ==
  IF k <= 1 THEN 0
  ELSE EntriesBefore(k - 1)
         + (IF open_sessions[k - 1].job_names = <<>> THEN 1
            ELSE 2 * Len(open_sessions[k - 1].job_names))

SessionsAppended == method = "pomodoro" /\ pc = "done" /\ result = "Ok"

BetweenEntries == TakeBefore(SkipEnded(backbone, clock.now_sessions), LatestDueDate)

\* The free intervals, in the order of the backbone.
FreeIntervals ==
  [j \in 1..(Len(BetweenEntries) + 1) |->
     [e |-> IF j = 1 THEN clock.now_sessions
            ELSE BetweenEntries[j - 1].span.start + BetweenEntries[j - 1].span.minutes,
      b |-> IF j = Len(BetweenEntries) + 1 THEN LatestDueDate
            ELSE BetweenEntries[j].span.start]]

SessionLength ==
  config.work_periods_per_job_session * config.work_minutes
    + (config.work_periods_per_job_session - 1) * config.short_break_minutes
    + config.long_break_minutes

\* The most sessions of length L, one after another from e on, that end by b
\* (a session is no shorter than one work period).
FitsIn(iv) ==
  IF iv.b <= iv.e THEN 0
  ELSE CHOOSE m \in 0..((iv.b - iv.e) \div config.work_minutes) :
         /\ iv.e + m * SessionLength <= iv.b
         /\ iv.e + (m + 1) * SessionLength > iv.b

\* How many sessions the intervals before the j-th hold, `fits` being the
\* number each interval holds.
RECURSIVE SessionsBeforeInterval(_, _)
SessionsBeforeInterval(fits, j) ==
  IF j <= 1 THEN 0
  ELSE SessionsBeforeInterval(fits, j - 1) + fits[j - 1]

C26_FreeIntervalsAreTiled ==
  BackboneBuilt =>
    LET iv == FreeIntervals
        fits == [j \in DOMAIN iv |-> FitsIn(iv[j])]
        before == [j \in 1..(Len(iv) + 1) |-> SessionsBeforeInterval(fits, j)]
    IN /\ Len(open_sessions) = before[Len(iv) + 1]
       /\ \A j \in DOMAIN iv :
            \A k \in 0..(fits[j] - 1) :
              LET ws == open_sessions[before[j] + k + 1]
              IN /\ ws.start = iv[j].e + k * SessionLength
                 /\ ws.start + SessionLength <= iv[j].b

\* A backbone with an interval that holds two sessions or more and a
\* leftover, and an interval that holds none because the entry before it
\* ends after the next one starts (here: now falls into an entry).
C26_Witness ==
  /\ BackboneBuilt
  /\ \E j \in DOMAIN FreeIntervals :
       /\ FitsIn(FreeIntervals[j]) >= 2
       /\ FreeIntervals[j].e + FitsIn(FreeIntervals[j]) * SessionLength
            < FreeIntervals[j].b
  /\ \E j \in DOMAIN FreeIntervals : FreeIntervals[j].b < FreeIntervals[j].e

(***************************************************************************)
(* C27: add_job is never called on a full session, so its unwrap never     *)
(* fails, and at every step every session holds at most                    *)
(* work_periods_per_job_session jobs.                                      *)
(***************************************************************************)
C27_SessionsNeverOverfilled ==
  method = "pomodoro" =>
    /\ result # "panic"
    /\ \A k \in DOMAIN open_sessions :
         Len(open_sessions[k].job_names) <= config.work_periods_per_job_session
    /\ (pc = "while" /\ periods_left[ui].periods_left > 0
          /\ Len(open_sessions[si].job_names) < config.work_periods_per_job_session
        => add_job(open_sessions[si], periods_left[ui].name).ok)

\* The while loop is left with periods of the unit still to place because
\* the session has become full.
C27_Witness ==
  /\ method = "pomodoro"
  /\ pc = "while"
  /\ periods_left[ui].periods_left > 0
  /\ Len(open_sessions[si].job_names) = config.work_periods_per_job_session
  /\ config.work_periods_per_job_session >= 2

(***************************************************************************)
(* C28: conservation. At every step of packing, for every unit the jobs    *)
(* placed under its label plus its periods_left make the number of         *)
(* periods it started with, ceil(minutes / work_minutes); periods_left is  *)
(* never below 0; no period is placed twice or lost: a unit that has left  *)
(* the list is placed in full, or not at all when its task is done or due  *)
(* by now, and every job placed is a period of some unit.                  *)
(***************************************************************************)
\* The packing of the sessions has started (and maybe ended).
Packing ==
  method = "pomodoro"
    /\ (pc \in {"sessions", "units", "while", "report"}
          \/ (pc = "done" /\ result = "Ok"))

\* How many jobs are placed under `label`, over all sessions.
RECURSIVE PlacedIn(_, _)
PlacedIn(sessions, label) ==
  IF sessions = <<>> THEN 0
  ELSE Cardinality({i \in DOMAIN Head(sessions).job_names :
                      Head(sessions).job_names[i] = label})
         + PlacedIn(Tail(sessions), label)

\* The periods a unit starts with: the least number of work periods that
\* cover its minutes.
StartsWith(u) ==
  LET m == IF u.task.duration.kind = "Minutes" THEN u.task.duration.minutes
           ELSE (CHOOSE sub \in {u.task.duration.subs[i] : i \in DOMAIN u.task.duration.subs} :
                   u.name = u.task.name \o ": " \o sub.name).duration
  IN CHOOSE n \in 0..m : n * config.work_minutes >= m
                           /\ (n = 0 \/ (n - 1) * config.work_minutes < m)

C28_PeriodsAreConserved ==
  Packing =>
    LET started == InitialUnits
        listed == {periods_left[i].name : i \in DOMAIN periods_left}
    IN /\ \A i \in DOMAIN periods_left :
            LET u == periods_left[i]
            IN /\ u.periods_left >= 0
               /\ PlacedIn(open_sessions, u.name) + u.periods_left = StartsWith(u)
       /\ \A i \in DOMAIN started :
            started[i].name \notin listed =>
              PlacedIn(open_sessions, started[i].name)
                \in {0, StartsWith(started[i])}
       /\ \A k \in DOMAIN open_sessions :
            \A j \in DOMAIN open_sessions[k].job_names :
              \E i \in DOMAIN started : started[i].name = open_sessions[k].job_names[j]

\* One unit is placed in part, with periods left, while another has been
\* placed in full and has left the list.
C28_Witness ==
  /\ Packing
  /\ \E i \in DOMAIN periods_left :
       /\ periods_left[i].periods_left > 0
       /\ PlacedIn(open_sessions, periods_left[i].name) > 0
  /\ \E i \in DOMAIN InitialUnits :
       /\ InitialUnits[i].name \notin {periods_left[j].name : j \in DOMAIN periods_left}
       /\ PlacedIn(open_sessions, InitialUnits[i].name) = StartsWith(InitialUnits[i])
       /\ StartsWith(InitialUnits[i]) >= 2

(***************************************************************************)
(* C29: earliest due first. Of any two Job entries of the returned         *)
(* schedule the one listed first belongs to a task due no later than the   *)
(* task of the other; during packing a unit has a job placed only when     *)
(* every eligible unit before it in due order has no period left. (The     *)
(* free intervals that hold sessions are in chronological order: so are    *)
(* the sessions.)                                                          *)
(***************************************************************************)
DueOfJob(e) == TaskOfTitle(e.name).due_date

C29_EarliestDueFirst ==
  /\ PomodoroOk =>
       \A i, j \in DOMAIN entries :
         (i < j /\ entries[i].kind = "Job" /\ entries[j].kind = "Job")
           => DueOfJob(entries[i]) <= DueOfJob(entries[j])
  /\ Packing =>
       /\ \A k, l \in DOMAIN open_sessions :
            k < l => open_sessions[k].start + SessionLength <= open_sessions[l].start
       /\ \A i, j \in DOMAIN periods_left :
            (/\ i < j
             /\ PlacedIn(open_sessions, periods_left[j].name) > 0
             /\ periods_left[i].task.due_date > clock.now_fill
             /\ ~periods_left[i].task.done)
            => /\ periods_left[i].periods_left = 0
               /\ periods_left[i].task.due_date <= periods_left[j].task.due_date

\* A schedule with jobs of two tasks, the task given second due first.
C29_Witness ==
  /\ PomodoroOk
  /\ Len(tasks) >= 2
  /\ tasks[2].due_date < tasks[1].due_date
  /\ \E i, j \in DOMAIN entries :
       /\ i < j
       /\ entries[i].kind = "Job" /\ entries[i].name = tasks[2].name
       /\ entries[j].kind = "Job" /\ entries[j].name = tasks[1].name

(***************************************************************************)
(* C30: every Job and every generated Break lies within [now, horizon]:    *)
(* no open session starts before now, and every session, its long break    *)
(* included, ends no later than the latest due date, whatever the          *)
(* backbone.                                                               *)
(***************************************************************************)
C30_SessionsWithinNowAndHorizon ==
  /\ Packing =>
       \A k \in DOMAIN open_sessions :
         /\ open_sessions[k].start >= clock.now_sessions
         /\ open_sessions[k].start + SessionLength <= LatestDueDate
  /\ PomodoroOk =>
       \A i \in DOMAIN generated :
         /\ generated[i].span.start >= clock.now_sessions
         /\ generated[i].span.start + generated[i].span.minutes <= LatestDueDate

(***************************************************************************)
(* C31: a task that is done, or whose due date is not after now, has no    *)
(* Job entry in the returned Pomodoro schedule and no line in the warning  *)
(* of unscheduled periods, also when there is no open session at all.      *)
(***************************************************************************)
Ineligible(t) == t.done \/ t.due_date <= clock.now_fill

C31_IneligibleTasksLeaveNoTrace ==
  PomodoroOk =>
    \A n \in DOMAIN tasks :
      Ineligible(tasks[n]) =>
        /\ \A i \in DOMAIN entries :
             entries[i].kind = "Job" => entries[i].name \notin UnitNames(tasks[n])
        /\ \A i \in DOMAIN unscheduled :
             unscheduled[i].name \notin UnitNames(tasks[n])

(***************************************************************************)
(* C32: only filled sessions are materialized: the entries appended are    *)
(* as many as the filled sessions make (2n for a session of n jobs), and   *)
(* every Break appended comes right after a Job, at that Job's end.        *)
(***************************************************************************)
RECURSIVE EntriesOfFilled(_)
EntriesOfFilled(sessions) ==
  IF sessions = <<>> THEN 0
  ELSE 2 * Len(Head(sessions).job_names) + EntriesOfFilled(Tail(sessions))

C32_OnlyFilledSessionsMaterialize ==
  PomodoroOk =>
    /\ Len(generated) = EntriesOfFilled(open_sessions)
    /\ \A i \in DOMAIN generated :
         generated[i].kind = "Break" =>
           /\ i > 1
           /\ generated[i - 1].kind = "Job"
           /\ generated[i].span.start
                = generated[i - 1].span.start + generated[i - 1].span.minutes

(***************************************************************************)
(* C33: a task with subtasks gives one unit per subtask, labeled           *)
(* "<task>: <subtask>" and sized ceil(subtask_minutes / work_minutes); the *)
(* units are in the order of their tasks' due dates, tasks due at the same *)
(* time in the order given and the subtasks of a task in their order; in   *)
(* the schedule no Job of a later subtask comes before a Job of an earlier *)
(* subtask of the same task, and no Job of a task given later before a Job *)
(* of a task given earlier and due at the same time.                       *)
(***************************************************************************)
\* Where the unit labeled `label` comes from: the position of its task in the
\* input and the position of its subtask (0 for a task of flat minutes).
OriginOf(label) ==
  CHOOSE o \in [task : DOMAIN tasks, sub : 0..2] :
    LET t == tasks[o.task]
    IN IF o.sub = 0
         THEN t.duration.kind = "Minutes" /\ label = t.name
         ELSE /\ t.duration.kind = "Subtasks"
              /\ o.sub \in DOMAIN t.duration.subs
              /\ label = t.name \o ": " \o t.duration.subs[o.sub].name

\* The origins in the order the units are to be in.
ComesBefore(o1, o2) ==
  \/ tasks[o1.task].due_date < tasks[o2.task].due_date
  \/ /\ tasks[o1.task].due_date = tasks[o2.task].due_date
     /\ \/ o1.task < o2.task
        \/ o1.task = o2.task /\ o1.sub < o2.sub

\* The units, as the packing receives them.
UnitsJustMade == method = "pomodoro" /\ pc = "sessions" /\ si = 1

C33_SubtasksBecomeUnitsInOrder ==
  /\ UnitsJustMade =>
       /\ \A n \in DOMAIN tasks :
            LET t == tasks[n]
            IN IF t.duration.kind = "Subtasks"
                 THEN \A k \in DOMAIN t.duration.subs :
                        \E i \in DOMAIN periods_left :
                          /\ periods_left[i].name = t.name \o ": " \o t.duration.subs[k].name
                          /\ periods_left[i].task = t
                          /\ periods_left[i].periods_left * config.work_minutes
                               >= t.duration.subs[k].duration
                          /\ (periods_left[i].periods_left - 1) * config.work_minutes
                               < t.duration.subs[k].duration
                 ELSE \E i \in DOMAIN periods_left : periods_left[i].name = t.name
       /\ \A i, j \in DOMAIN periods_left :
            i < j => ComesBefore(OriginOf(periods_left[i].name),
                                 OriginOf(periods_left[j].name))
  /\ PomodoroOk =>
       \A i, j \in DOMAIN entries :
         (i < j /\ entries[i].kind = "Job" /\ entries[j].kind = "Job"
            /\ entries[i].name # entries[j].name)
         => ComesBefore(OriginOf(entries[i].name), OriginOf(entries[j].name))

\* Two tasks with subtasks, due at the same time, and Jobs of both subtasks
\* of both in the schedule.
C33_Witness ==
  /\ PomodoroOk
  /\ Len(tasks) = 2
  /\ tasks[1].due_date = tasks[2].due_date
  /\ tasks[1].duration.kind = "Subtasks"
  /\ tasks[2].duration.kind = "Subtasks"
  /\ \A lbl \in {"A: x", "A: y", "B: x", "B: y"} :
       \E i \in DOMAIN entries : entries[i].kind = "Job" /\ entries[i].name = lbl

(***************************************************************************)
(* C34: in a timezone where every wake time is a local instant, the        *)
(* Ivy-Lee walk terminates and visits every day from today through the     *)
(* date of the latest due date once, in ascending order: every step of the *)
(* walk moves on by one day, never past the day after the last, or ends    *)
(* it (so it ends within that many steps), the day map has an entry for    *)
(* exactly the days visited so far whose weekday is not skipped (the list  *)
(* may be empty), and when today is after the latest due date no day is    *)
(* visited and the map returned is empty.                                  *)
(***************************************************************************)
\* The date of the due date that is latest.
LastDay ==
  CHOOSE d \in {DateOf(tasks[i].due_date) : i \in DOMAIN tasks} :
    \A i \in DOMAIN tasks : DateOf(tasks[i].due_date) <= d

\* The days from a through b whose weekday is not skipped.
WorkDaysIn(a, b) == {d \in a..b : d % 7 \notin config.skip_days}

WalkIsInStep ==
  method = "ivy_lee" /\ tasks # <<>> /\ clock.no_local = {} =>
    /\ pc = "walk" =>
         /\ day \in clock.today..(IF LastDay < clock.today THEN clock.today
                                  ELSE LastDay + 1)
         /\ DOMAIN task_days = WorkDaysIn(clock.today, day - 1)
    /\ pc \in {"warn", "done"} =>
         /\ DOMAIN task_days = WorkDaysIn(clock.today, LastDay)
         /\ LastDay < clock.today => task_days = <<>>
    /\ pc = "done" => result = "Ok"

WalkStep ==
  pc = "walk" /\ clock.no_local = {} =>
    \/ pc' = "walk" /\ day' = day + 1 /\ day <= LastDay
    \/ pc' = "warn" /\ day' = day /\ day > LastDay

C34_NothingToWalk == IvyLeeOk /\ LastDay < clock.today /\ task_days = <<>>

(***************************************************************************)
(* C35: every label of the Ivy-Lee day map belongs to a task whose due     *)
(* date has not passed at that day's wake time and whose consideration     *)
(* window has opened by then (due_date - consideration_period_days is not  *)
(* after the wake time); its denominator is the number of whole days from  *)
(* the wake time to the due date plus one, which is 1 at least.            *)
(***************************************************************************)
WakeTime(d) ==
  (d * 1440) + ((bedtime.start + ((bedtime.hours_tenths * 60) \div 10)) % 1440)

\* Task t may be labeled with denominator k on day d.
MayBeLabeled(t, k, d) ==
  /\ k >= 1
  /\ t.due_date >= WakeTime(d)
  /\ t.due_date - t.consideration_period_days * 1440 <= WakeTime(d)
  /\ (k - 1) * 1440 <= t.due_date - WakeTime(d)
  /\ t.due_date - WakeTime(d) < k * 1440

C35_LabelsOnlyForEligibleTasks ==
  method = "ivy_lee" =>
    \A d \in DOMAIN task_days : \A i \in DOMAIN task_days[d] :
      \E t \in TaskSet : \E k \in Denominators :
        /\ task_days[d][i] = LabelOf(t, k)
        /\ MayBeLabeled(t, k, d)

\* The walk has not labeled a task on a day before its window opened and
\* has labeled it on a later day, and has labeled a task with a denominator
\* of 2 or more.
C35_Witness ==
  /\ IvyLeeOk
  /\ \E t \in TaskSet : \E d, e \in DOMAIN task_days :
       /\ d < e
       /\ t.due_date - t.consideration_period_days * 1440 > WakeTime(d)
       /\ DenominatorsOn(t, d) = {}
       /\ DenominatorsOn(t, e) # {}
  /\ \E t \in TaskSet : \E d \in DOMAIN task_days :
       \E k \in Denominators : k >= 2 /\ k \in DenominatorsOn(t, d)

\* The walk has left a task that was past due on its first day without a
\* label.
C35_PastDueUnlabeled ==
  /\ IvyLeeOk
  /\ task_days # <<>>
  /\ \E t \in TaskSet :
       /\ t.due_date < WakeTime(clock.today)
       /\ \A d \in DOMAIN task_days : DenominatorsOn(t, d) = {}

(***************************************************************************)
(* C36: once the watcher has replaced the schedule behind the mutex by one *)
(* that differs from what the polling loop read last, the loop comes to    *)
(* read the schedule again and to re-derive current_event and next_event   *)
(* from it, whatever pair it holds (unless it panics first).               *)
(***************************************************************************)
\* The loop has read a schedule that the watcher has replaced since.
ReadIsStale ==
  /\ last_read # None
  /\ last_read.some.entries # schedule
  /\ main_pc # "panicked"

\* The loop has read the schedule the mutex holds now.
ReadIsFresh ==
  \/ last_read # None /\ last_read.some.entries = schedule
  \/ main_pc = "panicked"

C36_LoopReadsTheNewSnapshot == ReadIsStale ~> ReadIsFresh

\* The same for a loop that holds both a current and a next entry.
C36_LoopWithNextReadsTheNewSnapshot ==
  (ReadIsStale /\ next_event # None /\ main_pc = "top") ~> ReadIsFresh

\* The same for a loop that holds no entry.
C36_LoopWithNothingReadsTheNewSnapshot ==
  (ReadIsStale /\ current_event = None /\ main_pc = "top") ~> ReadIsFresh

(***************************************************************************)
(* C37: a "Now: <title>" notification is issued for an entry only while    *)
(* the entry is in progress: entry.start <= now < entry.end at the now of  *)
(* the iteration that issues it.                                           *)
(***************************************************************************)
\* Entry e is in progress at tick t.
InProgressAt(e, t) ==
  InTicks(e.span.start) <= t /\ t < InTicks(End(e.span))

C37_NowOnlyWhileInProgress ==
  (note # None /\ note.some.kind = "Now") =>
    InProgressAt(note.some.entry, loop_now)

(***************************************************************************)
(* C38: for one assignment of (current_event, next_event) the loop issues  *)
(* at most one "Now" notification and at most one "In N minutes" warning;  *)
(* one iteration issues at most one of the two; and a warning is issued    *)
(* only at a now that is not before next.start minus                       *)
(* next_event_warning_minutes.                                             *)
(***************************************************************************)
\* At most one notification of each kind since the last assignment, and the
\* warning just issued is not early.
NotificationsInBounds ==
  /\ issued.now <= 1
  /\ issued.warning <= 1
  /\ (note # None /\ note.some.kind = "In") =>
       /\ next_event = Some(note.some.entry)
       /\ loop_now + TicksPerMinute * config.next_event_warning_minutes
            >= TicksPerMinute * note.some.entry.span.start

\* One step of the loop issues one notification at most.
OneNotificationAStep ==
  issued'.now + issued'.warning <= issued.now + issued.warning + 1

C38_NotificationsOncePerAssignment ==
  []NotificationsInBounds /\ [][OneNotificationAStep]_vars

\* The loop has issued the "Now" notification and, in a later iteration, the
\* warning of one assignment, having slept in between.
C38_Witness ==
  /\ issued = [now |-> 1, warning |-> 1]
  /\ note # None
  /\ note.some.kind = "In"
  /\ main_pc = "sleep"

\* The loop has found the warning not due yet in an iteration.
C38_WarningNotDueYet ==
  /\ main_pc = "sleep"
  /\ notified_of_current_event
  /\ ~warned_of_next_event
  /\ next_event # None
  /\ note = None

(***************************************************************************)
(* C39: when the watcher leaves its loop (the file does not load, holds no *)
(* Pomodoro schedule or was removed, the watch reports an error, the       *)
(* channel is closed), the mutex holds the schedule that was written       *)
(* successfully last and is not held by the watcher; the watcher takes no  *)
(* further step, so no later file event changes the schedule; and the      *)
(* polling loop is not stopped by it: it can take its next step, and what  *)
(* it reads is that schedule.                                              *)
(***************************************************************************)
\* With the watcher stopped, the schedule is the last one written, the
\* watcher does not hold the lock, and the loop can go on.
StoppedWatcherLeavesSnapshot ==
  watcher_pc = "crashed" =>
    /\ schedule = last_written
    /\ lock_holder # "watcher"
    /\ pending = None
    /\ main_pc # "aborted"
    /\ main_pc # "panicked" => ENABLED MainRuns

\* A stopped watcher stays stopped, the schedule stays as it is, and a read
\* of the loop finds it.
StoppedWatcherStep ==
  watcher_pc = "crashed" =>
    /\ watcher_pc' = "crashed"
    /\ schedule' = schedule
    /\ file_events' = file_events
    /\ last_read' # last_read => last_read'.some.entries = last_written

C39_FailedReloadKeepsSnapshot ==
  []StoppedWatcherLeavesSnapshot /\ [][StoppedWatcherStep]_vars

\* The watcher has stopped with file events still to come, and the loop has
\* read the schedule and gone to sleep since the clock started.
C39_Witness ==
  /\ watcher_pc = "crashed"
  /\ file_events < MaxFileEvents
  /\ last_read # None
  /\ last_read.some.entries = schedule
  /\ main_pc = "sleep"
  /\ wall > 0

\* The watcher has replaced the schedule and has stopped at the next event;
\* the loop had read the schedule before the replacement.
C39_StoppedAfterAWrite ==
  /\ watcher_pc = "crashed"
  /\ file_events = 2
  /\ last_read # None
  /\ last_read.some.entries # schedule
  /\ schedule = last_written

====
